---- MODULE Spec2Model ----
(***************************************************************************)
(* Lucipedia: the wiki service (get-or-generate orchestration, search,     *)
(* random / most-recent selection) over the pages table and the LLM        *)
(* generator and searcher.                                                 *)
(*                                                                         *)
(* Strings are sequences of one-character strings, so that trimming,       *)
(* case folding and substring search are computed as the Go code computes  *)
(* them.                                                                   *)
(***************************************************************************)
EXTENDS Integers, Sequences, FiniteSets, TLC

(***************************************************************************)
(* Bounds                                                                  *)
(***************************************************************************)
\* number of GetPage calls that can be in flight at the same time
NumRequests == 2

Requests == 1..NumRequests

\* number of Allow calls that can be in flight at the same time
NumCallers == 2

Callers == 1..NumCallers

\* the last tick of the clock
MaxClock == 4

\* the Allow calls the history keeps
MaxHistory == 5

\* the ticks that can pass between the moment a goroutine reads the clock and
\* the moment it releases the lock
MaxDelay == 1

(***************************************************************************)
(* strings                                                                 *)
(***************************************************************************)
\* unicode.IsSpace on the characters that occur in the model
IsSpace(c) == c \in {" ", "\t", "\n", "\r"}

RECURSIVE TrimLeftSpace(_)
TrimLeftSpace(s) ==
    IF s = <<>> THEN <<>>
    ELSE IF IsSpace(Head(s)) THEN TrimLeftSpace(Tail(s)) ELSE s

RECURSIVE TrimRightSpace(_)
TrimRightSpace(s) ==
    IF s = <<>> THEN <<>>
    ELSE IF IsSpace(s[Len(s)]) THEN TrimRightSpace(SubSeq(s, 1, Len(s) - 1)) ELSE s

\* strings.TrimSpace
TrimSpace(s) == TrimRightSpace(TrimLeftSpace(s))

\* strings.ToLower on the letters that occur in the model
ToLowerChar(c) ==
    CASE c = "A" -> "a"
      [] c = "B" -> "b"
      [] c = "W" -> "w"
      [] OTHER -> c

\* a case folding that folds nothing
ToLowerKeep(s) == s

ToLower(s) == [i \in 1..Len(s) |-> ToLowerChar(s[i])]

\* strings.Contains
Contains(s, sub) ==
    \E i \in 0..(Len(s) - Len(sub)) : SubSeq(s, i + 1, i + Len(sub)) = sub

\* strings.ContainsAny
ContainsAny(s, chars) == \E i \in 1..Len(s) : s[i] \in chars

\* strings.HasPrefix of s[i..]
HasPrefixAt(s, i, p) ==
    /\ i + Len(p) - 1 <= Len(s)
    /\ SubSeq(s, i, i + Len(p) - 1) = p

\* strings.Split(s, sep) for a separator of one character
RECURSIVE Split(_, _)
Split(s, sep) ==
    IF \A i \in 1..Len(s) : s[i] # sep THEN <<s>>
    ELSE LET i == CHOOSE k \in 1..Len(s) : s[k] = sep /\ \A j \in 1..(k - 1) : s[j] # sep
         IN <<SubSeq(s, 1, i - 1)>> \o Split(SubSeq(s, i + 1, Len(s)), sep)

\* strings.LastIndex for one character; 0 when it does not occur
LastIndexByte(s, c) ==
    IF \A i \in 1..Len(s) : s[i] # c THEN 0
    ELSE CHOOSE k \in 1..Len(s) : s[k] = c /\ \A j \in (k + 1)..Len(s) : s[j] # c

(***************************************************************************)
(* service constants                                                       *)
(***************************************************************************)
defaultSearchLimit == 10

\* const disallowedBacklinkCharacters = " \"#?<>\\"
disallowedBacklinkCharacters == {" ", "\"", "#", "?", "<", ">", "\\"}

\* "/wiki/"
WikiPath == <<"/", "w", "i", "k", "i", "/">>

\* the literal head of wikiLinkPattern: href="/wiki/
HrefWiki == <<"h", "r", "e", "f", "=", "\"">> \o WikiPath

(***************************************************************************)
(* errors: an error value carries its root cause and the context added by  *)
(* the last eris.Wrap; eris.Is compares root causes, never the text        *)
(***************************************************************************)
New(msg) == [cause |-> msg, context |-> ""]

\* eris.Wrap(err, msg) / eris.Wrapf
Wrap(err, msg) == [cause |-> err.cause, context |-> msg]

\* eris.Is(err, target)
Is(err, target) == err.cause = target.cause

Nil == New("nil")

\* var ErrNoPages = eris.New("no wiki pages available")
ErrNoPages == New("no wiki pages available")

\* a failure of the database driver (connection lost, context cancelled, ...)
ErrDatabase == New("database failure")

\* SQLite's answer to an INSERT that repeats a slug (idx_pages_slug)
ErrUniqueSlug == New("UNIQUE constraint failed: pages.slug")

\* the error of a failed chat completion, refusal or content filter
ErrGenerator == New("generator failure")

ErrSearcher == New("searcher failure")

\* context.Canceled / context.DeadlineExceeded: what a blocking call returns
\* when the ctx it was given is done
ErrCanceled == New("context canceled")

(***************************************************************************)
(* backlinks                                                               *)
(***************************************************************************)
\* the index of the first character of s at or after j that ends the class
\* [^"#?], or Len(s) + 1
RECURSIVE ClassEnd(_, _)
ClassEnd(s, j) ==
    IF j > Len(s) THEN j
    ELSE IF s[j] \in {"\"", "#", "?"} THEN j ELSE ClassEnd(s, j + 1)

\* one attempt of wikiLinkPattern = href="/wiki/([^"#?]+)" at position i
MatchAt(s, i) ==
    LET j == i + Len(HrefWiki)
        k == ClassEnd(s, j)
    IN IF HasPrefixAt(s, i, HrefWiki) /\ k > j /\ k <= Len(s) /\ s[k] = "\""
       THEN [ok |-> TRUE, slug |-> SubSeq(s, j, k - 1), next |-> k + 1]
       ELSE [ok |-> FALSE, slug |-> <<>>, next |-> i + 1]

\* wikiLinkPattern.FindAllStringSubmatch(html, -1): the first groups of the
\* leftmost non-overlapping matches
RECURSIVE FindAllSubmatch(_, _)
FindAllSubmatch(s, i) ==
    IF i > Len(s) THEN <<>>
    ELSE LET m == MatchAt(s, i)
         IN IF m.ok THEN <<m.slug>> \o FindAllSubmatch(s, m.next)
            ELSE FindAllSubmatch(s, m.next)

SeqRange(q) == {q[i] : i \in 1..Len(q)}

\* the loop of an extractor that keeps every match
RECURSIVE CollectEveryMatch(_, _)
CollectEveryMatch(matches, backlinks) ==
    IF matches = <<>> THEN backlinks
    ELSE CollectEveryMatch(Tail(matches), Append(backlinks, TrimSpace(Head(matches))))

\* the loop of extractBacklinks: trim, skip empty, skip seen
RECURSIVE CollectBacklinks(_, _)
CollectBacklinks(matches, backlinks) ==
    IF matches = <<>> THEN backlinks
    ELSE LET slug == TrimSpace(Head(matches))
         IN IF slug = <<>> \/ slug \in SeqRange(backlinks)
            THEN CollectBacklinks(Tail(matches), backlinks)
            ELSE CollectBacklinks(Tail(matches), Append(backlinks, slug))

extractBacklinks(html) == CollectBacklinks(FindAllSubmatch(html, 1), <<>>)

\* a check of one backlink that looks only for the reference in the markup
validateBacklinkPresence(lowerHTML, link) ==
    LET trimmed == TrimSpace(link)
    IN IF trimmed = <<>> THEN New("backlink slug is empty")
       ELSE IF ~Contains(lowerHTML, WikiPath \o ToLower(trimmed))
            THEN New("backlink slug is missing from html")
       ELSE Nil

\* the check validateBacklinks makes of one backlink
validateBacklink(lowerHTML, link) ==
    LET trimmed == TrimSpace(link)
    IN IF trimmed = <<>> THEN New("backlink slug is empty")
       ELSE IF Contains(trimmed, <<"/">>)
            THEN New("backlink slug contains invalid path separator")
       ELSE IF ContainsAny(trimmed, disallowedBacklinkCharacters)
            THEN New("backlink slug contains invalid characters")
       ELSE IF ~Contains(lowerHTML, WikiPath \o ToLower(trimmed))
            THEN New("backlink slug is missing from html")
       ELSE Nil

RECURSIVE validateEach(_, _)
validateEach(lowerHTML, backlinks) ==
    IF backlinks = <<>> THEN Nil
    ELSE LET err == validateBacklink(lowerHTML, Head(backlinks))
         IN IF err # Nil THEN err ELSE validateEach(lowerHTML, Tail(backlinks))

\* a validator that checks nothing
validateNothing(html, backlinks) == Nil

validateBacklinks(html, backlinks) ==
    IF Len(backlinks) = 0 THEN Nil
    ELSE validateEach(ToLower(html), backlinks)

(***************************************************************************)
(* the pages table: rows in insertion order, ID = position (autoincrement, *)
(* no row is ever deleted), slug under the unique index idx_pages_slug     *)
(***************************************************************************)
NoPage == [found |-> FALSE, ID |-> 0, Slug |-> <<>>, HTML |-> <<>>]

PageOf(row) == [found |-> TRUE, ID |-> row.ID, Slug |-> row.Slug, HTML |-> row.HTML]

RowsWithSlug(rows, slug) == {i \in 1..Len(rows) : rows[i].Slug = slug}

Min(S) == CHOOSE x \in S : \A y \in S : x <= y

\* GormRepository.GetBySlug: First(&page, "slug = ?", trimmed), the row of
\* the lowest ID; nil, nil when there is none
GetBySlug(rows, slug, dbFails) ==
    LET trimmed == TrimSpace(slug)
    IN IF trimmed = <<>> THEN [err |-> New("slug is required"), page |-> NoPage]
       ELSE IF dbFails THEN [err |-> Wrap(ErrDatabase, "fetching page by slug"), page |-> NoPage]
       ELSE IF RowsWithSlug(rows, trimmed) = {} THEN [err |-> Nil, page |-> NoPage]
       ELSE [err |-> Nil, page |-> PageOf(rows[Min(RowsWithSlug(rows, trimmed))])]

\* gorm's Save of a page whose primary key is zero: a plain INSERT
InsertRow(rows, page) ==
    IF RowsWithSlug(rows, page.Slug) # {}
    THEN [err |-> Wrap(ErrUniqueSlug, "saving page"), rows |-> rows]
    ELSE [err |-> Nil,
          rows |-> Append(rows, [ID |-> Len(rows) + 1, Slug |-> page.Slug, HTML |-> page.HTML])]

\* gorm's Save of a page that has a primary key: UPDATE of all fields of that
\* row, and an INSERT when no row has the key
UpdateRow(rows, page) ==
    IF page.ID \notin 1..Len(rows) THEN InsertRow(rows, page)
    ELSE IF RowsWithSlug(rows, page.Slug) \ {page.ID} # {}
         THEN [err |-> Wrap(ErrUniqueSlug, "saving page"), rows |-> rows]
    ELSE [err |-> Nil,
          rows |-> [rows EXCEPT ![page.ID] = [ID |-> page.ID, Slug |-> page.Slug, HTML |-> page.HTML]]]

\* a store that upserts by slug: the row of the slug is overwritten
CreateOrUpdateUpsert(rows, page, dbFails) ==
    LET slug == TrimSpace(page.Slug)
        hit == RowsWithSlug(rows, slug)
    IN IF hit = {}
       THEN InsertRow(rows, [ID |-> 0, Slug |-> slug, HTML |-> page.HTML])
       ELSE [err |-> Nil, rows |-> [rows EXCEPT ![Min(hit)].HTML = page.HTML]]

\* GormRepository.CreateOrUpdate: trims the slug and calls db.Save(page)
CreateOrUpdate(rows, page, dbFails) ==
    IF TrimSpace(page.Slug) = <<>> THEN [err |-> New("page slug is required"), rows |-> rows]
    ELSE IF dbFails THEN [err |-> Wrap(ErrDatabase, "saving page"), rows |-> rows]
    ELSE LET trimmed == [page EXCEPT !.Slug = TrimSpace(page.Slug)]
         IN IF page.ID = 0 THEN InsertRow(rows, trimmed) ELSE UpdateRow(rows, trimmed)

\* a Create that overwrites the page of a slug that is stored already
CreateOverwriting(rows, page, dbFails) ==
    LET slug == TrimSpace(page.Slug)
        hit == RowsWithSlug(rows, slug)
    IN IF hit = {}
       THEN InsertRow(rows, [ID |-> 0, Slug |-> slug, HTML |-> TrimSpace(page.HTML)])
       ELSE [err |-> Nil, rows |-> [rows EXCEPT ![Min(hit)].HTML = TrimSpace(page.HTML)]]

\* Repository.Create: an INSERT of the trimmed slug and markup; a violation of
\* the unique index is answered with a new "already exists" error
Create(rows, page, dbFails) ==
    LET trimmedSlug == TrimSpace(page.Slug)
        record == [ID |-> 0, Slug |-> trimmedSlug, HTML |-> TrimSpace(page.HTML)]
        inserted == InsertRow(rows, record)
    IN IF trimmedSlug = <<>> THEN [err |-> New("page slug is required"), rows |-> rows]
       ELSE IF dbFails THEN [err |-> Wrap(ErrDatabase, "creating page"), rows |-> rows]
       ELSE IF inserted.err # Nil
       THEN [err |-> New("page with slug already exists"), rows |-> rows]
       ELSE inserted

\* Repository.RandomPage: Order("RANDOM()").First; pick is the row RANDOM()
\* puts first
RandomPage(rows, pick, dbFails) ==
    IF dbFails THEN [err |-> Wrap(ErrDatabase, "selecting random page"), page |-> NoPage]
    ELSE IF Len(rows) = 0 THEN [err |-> Nil, page |-> NoPage]
    ELSE [err |-> Nil, page |-> PageOf(rows[pick])]

\* Repository.MostRecentPage: Order("created_at DESC").First; rows are kept
\* in creation order
MostRecentRow(rows, dbFails) ==
    IF dbFails THEN [err |-> Wrap(ErrDatabase, "selecting most recent page"), page |-> NoPage]
    ELSE IF Len(rows) = 0 THEN [err |-> Nil, page |-> NoPage]
    ELSE [err |-> Nil, page |-> PageOf(rows[Len(rows)])]

(***************************************************************************)
(* the client key of an HTTP request                                       *)
(***************************************************************************)
\* net.SplitHostPort: the host before the last colon, in brackets when it
\* holds colons itself; an error when there is no port or the host holds a
\* colon or a bracket out of place
SplitHostPort(hostport) ==
    LET i == LastIndexByte(hostport, ":")
        before == SubSeq(hostport, 1, i - 1)
        bracketed == Len(before) >= 2 /\ before[1] = "[" /\ before[Len(before)] = "]"
        inner == SubSeq(before, 2, Len(before) - 1)
    IN IF i = 0 THEN [err |-> TRUE, host |-> <<>>]
       ELSE IF Len(before) > 0 /\ before[1] = "["
       THEN IF bracketed /\ ~ContainsAny(inner, {"[", "]"})
            THEN [err |-> FALSE, host |-> inner]
            ELSE [err |-> TRUE, host |-> <<>>]
       ELSE IF ContainsAny(before, {":", "[", "]"}) THEN [err |-> TRUE, host |-> <<>>]
       ELSE [err |-> FALSE, host |-> before]

\* a request: present is false for a nil *http.Request; a header that is not
\* set reads as the empty string
NoRequest == [present |-> FALSE, forwardedFor |-> <<>>, realIP |-> <<>>, RemoteAddr |-> <<>>]

\* a key derivation that asks the X-Real-IP header first
clientIPRealFirst(req) ==
    IF TrimSpace(req.realIP) # <<>> THEN TrimSpace(req.realIP)
    ELSE IF TrimSpace(req.forwardedFor) # <<>>
    THEN TrimSpace(Split(TrimSpace(req.forwardedFor), ",")[1])
    ELSE <<>>

clientIPFromRequest(req) ==
    LET forwarded == TrimSpace(req.forwardedFor)
        candidate == TrimSpace(Split(forwarded, ",")[1])
        realIP == TrimSpace(req.realIP)
        split == SplitHostPort(req.RemoteAddr)
    IN IF ~req.present THEN <<>>
       ELSE IF forwarded # <<>> /\ candidate # <<>> THEN candidate
       ELSE IF realIP # <<>> THEN realIP
       ELSE IF split.err THEN TrimSpace(req.RemoteAddr)
       ELSE split.host

(***************************************************************************)
(* inputs                                                                  *)
(***************************************************************************)
\* the slugs callers ask for: blank, padded and plain
SlugInputs == { <<" ">>, <<" ", "a", " ">>, <<"b">> }

Slugs == {TrimSpace(s) : s \in SlugInputs} \ {<<>>}

Div(inner) == <<"<", "d", "i", "v", ">">> \o inner \o <<"<", "/", "d", "i", "v", ">">>

Anchor(target) ==
    <<"<", "a", " ">> \o HrefWiki \o target \o <<"\"", ">", "x", "<", "/", "a", ">">>

\* fragments cleanGeneratedHTML renders (html.Render of an element node, so
\* never blank and never padded): no link, links in either case, a link whose
\* target has a path separator
CleanedHTML ==
    { Div(<<"x">>),
      Div(Anchor(<<"B">>) \o Anchor(<<"a">>)),
      Div(Anchor(<<"a", "/", "b">>)) }

\* what the chat completion of one Generate call comes to
Completions ==
    {[failed |-> TRUE, cleaned |-> <<>>]} \cup
    {[failed |-> FALSE, cleaned |-> h] : h \in CleanedHTML}

\* the queries and limits Search is called with
QueryInputs == { <<>>, <<" ">>, <<"q">>, <<" ", "q", " ">> }

LimitInputs == {-1, 0, 1, 2, 3}

Eleven == [i \in 1..11 |-> <<"s">>]

\* the lists a Searcher hands back
SearcherLists ==
    { <<>>,
      << <<"h">>, <<"a">>, <<"b">> >>,
      << <<" ", "h">>, <<>>, <<" ">>, <<"a", " ">>, <<"b">> >>,
      << <<"\n">>, <<"b">>, <<"b">>, <<"a">> >>,
      Eleven }

SearcherOutcomes ==
    {[failed |-> TRUE, slugs |-> <<>>]} \cup
    {[failed |-> FALSE, slugs |-> l] : l \in SearcherLists}

\* the markup validateBacklinks is called with: a link to a, a link to ab, a
\* link to B, links whose targets hold a path separator and a space, a
\* mention of /wiki/c outside any link, and no link at all
ValidatorMarkups ==
    { Div(Anchor(<<"a">>)),
      Div(Anchor(<<"a", "b">>)),
      Div(Anchor(<<"B">>)),
      Div(Anchor(<<"a", "/", "b">>) \o Anchor(<<"a", " ", "b">>)),
      Div(WikiPath \o <<"c">>),
      Div(<<"x">>) }

\* the slugs validateBacklinks is called with
ValidatorSlugs ==
    { <<"a">>, <<"A">>, <<"b">>, <<"c">>, <<" ", "a", " ">>, <<" ">>,
      <<"a", "/", "b">>, <<"a", " ", "b">>, <<"a", "\"">> }

\* backlinks []string of at most two slugs
SlugLists ==
    {<<>>} \cup {<<x>> : x \in ValidatorSlugs}
           \cup {<<x, y>> : x \in ValidatorSlugs, y \in ValidatorSlugs}

\* the link targets, after /wiki/, of the markup extractBacklinks is called
\* with: plain, upper case, padded, blank, and with a fragment
LinkTargets ==
    { <<"a">>, <<"b">>, <<"A">>, <<" ", "a">>, <<" ">>, <<"a", "#", "s">> }

RECURSIVE Anchors(_)
Anchors(targets) ==
    IF targets = <<>> THEN <<>> ELSE Anchor(Head(targets)) \o Anchors(Tail(targets))

\* fragments of at most three links
ExtractorMarkups ==
    {Div(<<"x">>)}
    \cup {Div(Anchors(<<x>>)) : x \in LinkTargets}
    \cup {Div(Anchors(<<x, y>>)) : x \in LinkTargets, y \in LinkTargets}
    \cup {Div(Anchors(<<x, y, z>>)) : x \in LinkTargets, y \in LinkTargets, z \in LinkTargets}

(***************************************************************************)
(* the generator                                                           *)
(***************************************************************************)
\* the pages handed to Repository.Create
CreatePages ==
    { [Slug |-> slug, HTML |-> html] :
        slug \in SlugInputs \cup {<<"a">>, <<"b", " ">>},
        html \in {<<>>, <<"x">>, <<" ", "y", " ">>} }

\* the X-Forwarded-For and X-Real-IP headers and the remote addresses of the
\* requests whose key is derived
ForwardedHeaders ==
    { <<>>, <<" ">>, <<"1">>, <<"1", ",", "2">>, <<" ", "1", " ", ",", " ", "2">>,
      <<",", "2">>, <<" ", ",", "2">>, <<"1", ",">> }

RealIPHeaders == { <<>>, <<" ">>, <<"3">>, <<" ", "3", " ">> }

RemoteAddrs ==
    { <<"4", ":", "8">>, <<"4">>, <<" ", "4", " ">>, <<"[", "5", ":", "5", "]", ":", "8">>,
      <<"5", ":", "5", ":", "8">>, <<>> }

HTTPRequests ==
    {NoRequest} \cup
    { [present |-> TRUE, forwardedFor |-> f, realIP |-> r, RemoteAddr |-> a] :
        f \in ForwardedHeaders, r \in RealIPHeaders, a \in RemoteAddrs }

\* a generator that answers a failed completion with a stock fragment
GenerateFallback(slug, completion) ==
    [err |-> Nil,
     html |-> IF completion.failed THEN Div(<<"x">>) ELSE completion.cleaned,
     backlinks |-> IF completion.failed THEN <<>> ELSE extractBacklinks(completion.cleaned)]

\* generator.Generate: a failed completion, a refusal or a content filter is
\* an error; otherwise the cleaned fragment and the backlinks extracted from it
Generate(slug, completion) ==
    IF TrimSpace(slug) = <<>>
    THEN [err |-> New("slug is required"), html |-> <<>>, backlinks |-> <<>>]
    ELSE IF completion.failed
    THEN [err |-> Wrap(ErrGenerator, "requesting chat completion"), html |-> <<>>, backlinks |-> <<>>]
    ELSE [err |-> Nil, html |-> completion.cleaned,
          backlinks |-> extractBacklinks(completion.cleaned)]

(***************************************************************************)
(* the sanitizer                                                           *)
(*                                                                         *)
(* The text handed to cleanGeneratedHTML is a sequence of tokens: the      *)
(* characters of its text, and one token for each tag and comment, as the  *)
(* tokenizer of html.Parse reads them.  The texts of the model are well    *)
(* nested, so the tree html.Parse builds is the nesting of the tags.       *)
(***************************************************************************)
OpenTags == {"<p>", "<div>", "<header>"}

CloseTags == {"</p>", "</div>", "</header>"}

CommentTag == "<!---->"

IsTextToken(t) == t \notin (OpenTags \cup CloseTags \cup {CommentTag})

\* newName: header becomes div
NewName(t) ==
    CASE t = "<header>" -> "<div>"
      [] t = "</header>" -> "</div>"
      [] OTHER -> t

\* the back quote, which a string of this language cannot hold
BackQuote == "|"

CodeFence == <<BackQuote, BackQuote, BackQuote>>

\* strings.IndexByte(s, c) + 1, or 0
IndexByte(s, c) ==
    IF \E i \in 1..Len(s) : s[i] = c
    THEN CHOOSE i \in 1..Len(s) : s[i] = c /\ \A j \in 1..(i - 1) : s[j] # c
    ELSE 0

\* strings.HasSuffix
HasSuffix(s, suffix) ==
    /\ Len(s) >= Len(suffix)
    /\ SubSeq(s, Len(s) - Len(suffix) + 1, Len(s)) = suffix

\* a stripCodeFence that strips nothing
stripNothing(content) == content

stripCodeFence(content) ==
    IF ~HasPrefixAt(content, 1, CodeFence) THEN content
    ELSE LET body == SubSeq(content, 4, Len(content))
             newline == IndexByte(body, "\n")
         IN IF newline = 0 THEN content
            ELSE LET trimmedBody == TrimRightSpace(SubSeq(body, newline + 1, Len(body)))
                 IN IF ~HasSuffix(trimmedBody, CodeFence) THEN content
                    ELSE TrimSpace(TrimRightSpace(SubSeq(trimmedBody, 1, Len(trimmedBody) - 3)))

\* the new root before any child is appended: the tokens rendered so far, the
\* text node being read, the children of the root and how many are div elements
EmptyRoot == [out |-> <<>>, text |-> <<>>, children |-> 0, divs |-> 0]

\* the text node being read ends: it is dropped when blank and directly under
\* the document or body, appended otherwise
AppendText(root, depth) ==
    IF root.text = <<>> THEN root
    ELSE IF depth = 0 /\ TrimSpace(root.text) = <<>> THEN [root EXCEPT !.text = <<>>]
    ELSE [root EXCEPT !.out = @ \o root.text, !.text = <<>>,
                      !.children = IF depth = 0 THEN @ + 1 ELSE @]

\* appendSanitizedChildren over the token sequence; depth counts the open
\* elements
RECURSIVE appendSanitizedChildren(_, _, _)
appendSanitizedChildren(tokens, depth, root) ==
    IF tokens = <<>> THEN AppendText(root, depth)
    ELSE LET t == Head(tokens)
             flushed == AppendText(root, depth)
         IN IF IsTextToken(t)
            THEN appendSanitizedChildren(Tail(tokens), depth, [root EXCEPT !.text = Append(@, t)])
            ELSE IF t = CommentTag
            THEN appendSanitizedChildren(Tail(tokens), depth, flushed)
            ELSE IF t \in OpenTags
            THEN appendSanitizedChildren(Tail(tokens), depth + 1,
                     [flushed EXCEPT !.out = Append(@, NewName(t)),
                                     !.children = IF depth = 0 THEN @ + 1 ELSE @,
                                     !.divs = IF depth = 0 /\ NewName(t) = "<div>" THEN @ + 1 ELSE @])
            ELSE appendSanitizedChildren(Tail(tokens), depth - 1,
                     [flushed EXCEPT !.out = Append(@, NewName(t))])

\* singleDivChild(root) # nil
singleDivChild(root) == root.children = 1 /\ root.divs = 1

cleanGeneratedHTML(content) ==
    LET trimmed == stripCodeFence(TrimSpace(content))
        root == appendSanitizedChildren(trimmed, 0, EmptyRoot)
    IN IF trimmed = <<>> THEN [err |-> New("html content is empty"), html |-> <<>>]
       ELSE IF root.children = 0
       THEN [err |-> New("html content empty after cleaning"), html |-> <<>>]
       ELSE IF singleDivChild(root) THEN [err |-> Nil, html |-> root.out]
       ELSE [err |-> Nil, html |-> <<"<div>">> \o root.out \o <<"</div>">>]

\* the pieces the texts of the model are made of: a fence, a new line, a
\* space, a word, elements, a comment, and a fenced paragraph
ContentPieces ==
    { CodeFence, <<"\n">>, <<" ">>, <<"x">>,
      <<"<p>", "x", "</p>">>, <<"<div>", "x", "</div>">>, <<"<header>", "x", "</header>">>,
      <<CommentTag>>,
      CodeFence \o <<"\n", "<p>", "x", "</p>", "\n">> \o CodeFence }

\* texts of at most three pieces
Contents ==
    {<<>>} \cup ContentPieces
           \cup {x \o y : x \in ContentPieces, y \in ContentPieces}
           \cup {x \o y \o z : x \in ContentPieces, y \in ContentPieces, z \in ContentPieces}

\* opening fence lines, bare and with a language tag
FenceOpeners == {CodeFence \o <<"\n">>, CodeFence \o <<"h", "t", "m", "l", "\n">>}

\* closing fence lines
FenceClosers == {<<"\n">> \o CodeFence, <<"\n">> \o CodeFence \o <<"\n">>}

(***************************************************************************)
(* the sanitizer on the tree html.Parse returns                            *)
(*                                                                         *)
(* A node has a type, its Data (the name of an element, the text of a text *)
(* node), its attributes and its children in order.                        *)
(***************************************************************************)
Node(type, data, attr, kids) == [Type |-> type, Data |-> data, Attr |-> attr, kids |-> kids]

ElementNode(data, attr, kids) == Node("element", data, attr, kids)

TextNode(data) == Node("text", data, <<>>, <<>>)

CommentNode == Node("comment", "c", <<>>, <<>>)

DoctypeNode == Node("doctype", "html", <<>>, <<>>)

DocumentNode(kids) == Node("document", "", <<>>, kids)

\* strings.ToLower on the names of the model; svg keeps the case of
\* foreignObject in the tree
LowerName(data) ==
    CASE data = "foreignObject" -> "foreignobject"
      [] OTHER -> data

\* strings.TrimSpace(node.Data) == "" for the texts of the model
isWhitespaceTextNode(node) == node.Type = "text" /\ node.Data \in {"", " ", "\n"}

\* a rewrite that keeps the name of every element
newNameKept(data) == data

\* newName: header becomes div, every other name is kept as it is written
newName(data) == IF LowerName(data) = "header" THEN "div" ELSE data

\* cloneAttributes
cloneAttributes(attrs) == attrs

\* appendSanitizedChildren(dst, src): the nodes it appends to dst, in order
RECURSIVE sanitizedChildren(_)
sanitizedChildren(src) ==
    LET skipWhitespace ==
            \/ src.Type = "document"
            \/ src.Type = "element" /\ LowerName(src.Data) \in {"html", "body"}
        RECURSIVE From(_)
        From(i) ==
            IF i > Len(src.kids) THEN <<>>
            ELSE LET child == src.kids[i]
                     name == LowerName(child.Data)
                 IN (CASE child.Type = "text" ->
                            IF skipWhitespace /\ isWhitespaceTextNode(child) THEN <<>>
                            ELSE <<TextNode(child.Data)>>
                       [] child.Type = "element" ->
                            IF name = "head" THEN <<>>
                            ELSE IF name \in {"html", "body"} THEN sanitizedChildren(child)
                            ELSE <<ElementNode(newName(child.Data), cloneAttributes(child.Attr),
                                               sanitizedChildren(child))>>
                       [] child.Type \in {"comment", "doctype"} -> <<>>
                       [] OTHER -> sanitizedChildren(child))
                    \o From(i + 1)
    IN From(1)

\* a singleDivChild that takes any single element
singleElementChild(kids) == Len(kids) = 1 /\ kids[1].Type = "element"

\* singleDivChild(root) # nil, for the children of root
singleDivChildOf(kids) ==
    /\ Len(kids) = 1
    /\ kids[1].Type = "element" /\ LowerName(kids[1].Data) = "div"

\* html.Render: the start tag, the children and the end tag of an element,
\* the text of a text node
RECURSIVE Render(_)
Render(node) ==
    LET RECURSIVE Kids(_)
        Kids(i) == IF i > Len(node.kids) THEN <<>> ELSE Render(node.kids[i]) \o Kids(i + 1)
    IN IF node.Type = "text" THEN <<[tag |-> "text", name |-> node.Data, attr |-> <<>>]>>
       ELSE <<[tag |-> "start", name |-> node.Data, attr |-> node.Attr]>>
            \o Kids(1)
            \o <<[tag |-> "end", name |-> node.Data, attr |-> <<>>]>>

NoNode == Node("none", "", <<>>, <<>>)

\* cleanGeneratedHTML from the parsed document on: the new root, the rewrite,
\* the unwrapping of a single div and the rendering
cleanDocument(doc) ==
    LET root == ElementNode("div", <<>>, sanitizedChildren(doc))
        contentRoot == IF singleDivChildOf(root.kids) THEN root.kids[1] ELSE root
    IN IF root.kids = <<>>
       THEN [err |-> New("html content empty after cleaning"), root |-> NoNode, html |-> <<>>]
       ELSE [err |-> Nil, root |-> contentRoot, html |-> Render(contentRoot)]

\* the documents html.Parse returns: an optional doctype, then html with
\* its head, an optional blank text and its body
Hero == <<[Key |-> "class", Val |-> "hero"]>>

LeafKids == { <<>>, <<TextNode("x")>>, <<CommentNode>>, <<TextNode("x"), CommentNode>> }

Elements1 ==
    { ElementNode(name, attr, kids) :
        name \in {"p", "div", "header", "main"}, attr \in {<<>>, Hero}, kids \in LeafKids }

Elements2 ==
    { ElementNode(name, <<>>, <<e>>) : name \in {"p", "div", "header"}, e \in Elements1 }
    \cup { ElementNode("svg", <<>>, <<ElementNode("foreignObject", <<>>, <<TextNode("x")>>)>>) }

PairKids ==
    { TextNode("x"), TextNode(" "), CommentNode,
      ElementNode("div", <<>>, <<TextNode("x")>>),
      ElementNode("header", Hero, <<TextNode("x")>>),
      ElementNode("p", <<>>, <<TextNode(" ")>>) }

BodyKids ==
    {<<>>}
    \cup { <<k>> : k \in {TextNode("x"), TextNode(" "), CommentNode} \cup Elements1 \cup Elements2 }
    \cup { <<k1, k2>> : k1 \in PairKids, k2 \in PairKids }

HeadKids == { <<>>, <<ElementNode("title", <<>>, <<TextNode("x")>>)>> }

Documents ==
    { DocumentNode(doctype \o
          <<ElementNode("html", <<>>,
                <<ElementNode("head", <<>>, head)>> \o blank \o <<ElementNode("body", <<>>, body)>>)>>) :
        doctype \in {<<>>, <<DoctypeNode>>},
        head \in HeadKids,
        blank \in {<<>>, <<TextNode("\n")>>},
        body \in BodyKids }

NoTreeOp == [called |-> FALSE, doc |-> NoNode, kids |-> <<>>, clean |-> [err |-> Nil, root |-> NoNode, html |-> <<>>]]

(***************************************************************************)
(* the rate limiter: settings and records                                  *)
(*                                                                         *)
(* Time is counted in ticks, TicksPerSecond to the second, and tokens in   *)
(* units of 1/TicksPerSecond of a token, so that elapsed seconds times the *)
(* refill rate is a whole number of units.                                 *)
(***************************************************************************)
TicksPerSecond == 2

\* one token, in units
OneToken == TicksPerSecond

\* RateLimiterSettings as the tests set them (Burst 3, RequestsPerSecond 3),
\* with a client TTL of one second
TestSettings == [maxTokens |-> 3 * OneToken, refillRate |-> 3, ttl |-> TicksPerSecond]

\* the same with a refill rate of one token per second
SlowSettings == [maxTokens |-> 3 * OneToken, refillRate |-> 1, ttl |-> TicksPerSecond]

\* the key of the client whose calls are followed
ClientKey == "1.2.3.4"

\* a limiter that keeps one bucket for all clients
KeyOfShared(key) == "unknown"

\* key = "unknown" when key is empty
KeyOf(key) == IF key = "" THEN "unknown" ELSE key

\* the keys of the clients map: the client, and the requests whose client
\* address is unknown
Keys == {KeyOf(ClientKey), KeyOf("")}

\* no entry in the clients map
NoClient == [present |-> FALSE, tokens |-> 0, last |-> 0, lastSeen |-> 0]

\* an Allow call that has not begun
\* the address 1.2.3.4 as the text of a header
ClientAddress == <<"1", ".", "2", ".", "3", ".", "4">>

\* the key Allow is given, as a key of the client table
KeyText(ip) == IF ip = ClientAddress THEN ClientKey ELSE ""

\* the requests that reach the middleware, all of one client: its address
\* forwarded by a proxy, and its address as the address of the connection
GateRequests ==
    { [present |-> TRUE, forwardedFor |-> ClientAddress \o <<",", "9">>, realIP |-> <<"9">>,
       RemoteAddr |-> <<"9", ":", "8">>],
      [present |-> TRUE, forwardedFor |-> <<>>, realIP |-> <<>>,
       RemoteAddr |-> ClientAddress \o <<":", "8">>] }

\* the slugs of the requests to /wiki/{slug}
GateSlugs == { <<"b">>, <<" ">> }

\* the completions behind the gate: a failure and a plain fragment
GateCompletions ==
    { [failed |-> TRUE, cleaned |-> <<>>], [failed |-> FALSE, cleaned |-> Div(<<"x">>)] }

\* a middleware that lets every request through
ProceedsAlways(ok) == TRUE

\* if s.rateLimiter.Allow(ip) { next(ctx); return }
Proceeds(ok) == ok

\* classifyError, for the errors of the model
classifyError(err) ==
    IF err.cause = "slug is required" THEN 400 ELSE 500

\* the key each caller asks Allow for: the callers of odd number are the
\* client 1.2.3.4, the others send no address
CallerKey(g) == IF g % 2 = 1 THEN ClientKey ELSE ""

\* one caller for each of the two clients
TwoClients == {g \in Callers : g <= 2}

\* a request that has not reached rateLimitMiddleware
NoGate == [pc |-> "idle", ip |-> "", status |-> 0, retryAfter |-> "", handled |-> 0]

NoAllow == [pc |-> "idle", key |-> "unknown", now |-> 0, ok |-> FALSE]

\* a new record that starts with no token
NewClientEmpty(now, settings) ==
    [present |-> TRUE, tokens |-> 0, last |-> now, lastSeen |-> now]

\* client = &rateLimiterClient{tokens: rl.maxTokens, last: now, lastSeen: now}
NewClient(now, settings) ==
    [present |-> TRUE, tokens |-> settings.maxTokens, last |-> now, lastSeen |-> now]

\* a refill that is not capped
RefillUncapped(client, now, settings) ==
    IF now - client.last > 0
    THEN [client EXCEPT !.tokens = @ + (now - client.last) * settings.refillRate,
                        !.last = now]
    ELSE client

\* the refill of Allow: elapsed seconds times the rate, capped at maxTokens
Refill(client, now, settings) ==
    LET elapsed == now - client.last
        tokens == client.tokens + elapsed * settings.refillRate
    IN IF elapsed > 0
       THEN [client EXCEPT !.tokens = IF tokens > settings.maxTokens
                                      THEN settings.maxTokens ELSE tokens,
                           !.last = now]
       ELSE client

\* an admission test that admits every call
AdmitsAlways(client) == TRUE

\* !(client.tokens < 1)
Admits(client) == ~(client.tokens < OneToken)

\* a test that finds no record stale
StaleNever(client, now, ttl) == FALSE

\* now.Sub(client.lastSeen) > rl.ttl
Stale(client, now, ttl) == now - client.lastSeen > ttl

\* a lock that is never held
TryLockAlways(holder) == TRUE

\* rl.mu.Lock() goes through when nobody holds the lock
TryLock(holder) == holder = 0

\* the goroutine of the ticker, as a holder of the lock
Sweeper == NumCallers + 1

(***************************************************************************)
(* state                                                                   *)
(***************************************************************************)
VARIABLES
    rows,       \* the pages table
    pc,         \* where each GetPage call stands
    call,       \* the locals and the return value of each GetPage call
    stats,      \* what each GetPage call has done so far (observation only)
    served,     \* per slug, the markup of the first GetPage call that returned it
    searchOp,   \* the last Search call: arguments, what the Searcher saw, result
    selectOp    \* the last RandomSlug / MostRecentPage call

VARIABLES
    backlinkOp, \* the last extractBacklinks / validateBacklinks call
    cleanOp     \* the last cleanGeneratedHTML calls, on a text bare and fenced

VARIABLES
    limiter,    \* RateLimiter.maxTokens, refillRate and ttl
    clients,    \* RateLimiter.clients
    clock,      \* what rl.now() returns, in ticks
    mu,         \* RateLimiter.mu: 0 when free, else the goroutine holding it
    allow,      \* where each Allow call stands, its locals and its result
    sweep,      \* where the pruneStale goroutine stands, and its ticker
    history     \* the Allow calls that have returned, in order (observation only)

VARIABLES
    treeOp      \* the last rewrite of a parsed document: the document and the result

VARIABLES
    createOp    \* the last Repository.Create call: the table before, argument, error

VARIABLES
    keyOp,      \* the last clientIPFromRequest call: the request and the key
    gate        \* where each request stands in rateLimitMiddleware, and its response

serviceVars == <<rows, pc, call, stats, served, searchOp, selectOp>>

pipelineVars == <<backlinkOp, cleanOp, treeOp>>

limiterVars == <<limiter, clients, clock, mu, allow, sweep, history>>

repoVars == <<createOp>>

httpVars == <<keyOp, gate>>

vars == <<serviceVars, pipelineVars, limiterVars, repoVars, httpVars>>

NoCall ==
    [slug |-> <<>>, trimmedSlug |-> <<>>, html |-> <<>>,
     err |-> Nil, result |-> <<>>]

\* lookups, genCalls, writeCalls: calls made of GetBySlug, Generate and
\* CreateOrUpdate; writes: writes that changed the table; hadPage, hadHTML: the
\* page the table held for the slug when the call began; servedBefore,
\* servedHTML: the markup GetPage had returned for the slug when the call began;
\* priorWriters: the calls that had written the same slug before this call wrote;
\* errorEntries, captures: the entries recordError has written to the logger and
\* the exceptions it has sent to the Sentry hub for this call
NoStats ==
    [lookups |-> 0, genCalls |-> 0, writeCalls |-> 0, writes |-> 0,
     hadPage |-> FALSE, hadHTML |-> <<>>,
     hit |-> FALSE, miss |-> FALSE,
     generated |-> FALSE, genFailed |-> FALSE, genHTML |-> <<>>,
     validated |-> FALSE, stored |-> <<>>, priorWriters |-> {},
     servedBefore |-> FALSE, servedHTML |-> <<>>,
     errorEntries |-> 0, captures |-> 0]

NotServed == [set |-> FALSE, html |-> <<>>]

NoSearch ==
    [called |-> FALSE, query |-> <<>>, limit |-> 0, outcome |-> [failed |-> FALSE, slugs |-> <<>>],
     calls |-> 0, capturedQuery |-> <<>>, capturedLimit |-> 0,
     err |-> Nil, results |-> <<>>]

NoSelect ==
    [op |-> "none", empty |-> TRUE, dbFails |-> FALSE, err |-> Nil, slug |-> <<>>, html |-> <<>>]

NoCreateOp ==
    [called |-> FALSE, before |-> <<>>, page |-> [Slug |-> <<>>, HTML |-> <<>>],
     dbFails |-> FALSE, err |-> Nil]

NoKeyOp == [called |-> FALSE, req |-> NoRequest, key |-> <<>>]

NoBacklinkOp ==
    [op |-> "none", html |-> <<>>, backlinks |-> <<>>, err |-> Nil, extracted |-> <<>>]

NoClean == [err |-> Nil, html |-> <<>>]

NoCleanOp ==
    [called |-> FALSE, content |-> <<>>, fenced |-> <<>>, bare |-> NoClean, wrapped |-> NoClean]

\* the wiki service and the pipeline before the first call
InitService ==
    /\ rows = <<>>
    /\ pc = [r \in Requests |-> "idle"]
    /\ call = [r \in Requests |-> NoCall]
    /\ stats = [r \in Requests |-> NoStats]
    /\ served = [s \in Slugs |-> NotServed]
    /\ searchOp = NoSearch
    /\ selectOp = NoSelect
    /\ backlinkOp = NoBacklinkOp
    /\ cleanOp = NoCleanOp
    /\ treeOp = NoTreeOp
    /\ createOp = NoCreateOp
    /\ keyOp = NoKeyOp
    /\ gate = [g \in Callers |-> NoGate]

\* NewRateLimiter: no client, the lock free, the ticker set to the TTL
NewRateLimiter(settings) ==
    /\ limiter = settings
    /\ clients = [k \in Keys |-> NoClient]
    /\ clock = 0
    /\ mu = 0
    /\ allow = [g \in Callers |-> NoAllow]
    /\ sweep = [pc |-> "idle", now |-> 0, next |-> settings.ttl]
    /\ history = <<>>

Init ==
    /\ InitService
    /\ NewRateLimiter(TestSettings)

(***************************************************************************)
(* service.GetPage, one action per blocking call                           *)
(***************************************************************************)
\* a slug check that lets every slug through
slugMissingNever(trimmedSlug) == FALSE

\* if trimmedSlug == ""
slugMissing(trimmedSlug) == trimmedSlug = <<>>

\* a hit test that never hits
IsStoredPageNever(page) == FALSE

\* if page != nil && strings.TrimSpace(page.HTML) != ""
IsStoredPage(page) == page.found /\ TrimSpace(page.HTML) # <<>>

\* a hit that answers with the slug instead of the markup
StoredMarkupSlug(page) == page.Slug

\* return strings.TrimSpace(page.HTML), nil
StoredMarkup(page) == TrimSpace(page.HTML)

\* a page built with the slug in the place of the markup
NewPageSlug(trimmedSlug, html) == [ID |-> 0, Slug |-> trimmedSlug, HTML |-> trimmedSlug]

\* newPage := &Page{Slug: trimmedSlug, HTML: html}
NewPage(trimmedSlug, html) == [ID |-> 0, Slug |-> trimmedSlug, HTML |-> html]

\* the markup the table holds for a slug
StoredHTML(table, slug) == table[Min(RowsWithSlug(table, slug))].HTML

HasPage(table, slug) ==
    /\ RowsWithSlug(table, slug) # {}
    /\ TrimSpace(StoredHTML(table, slug)) # <<>>

Fail(r, err) == [call[r] EXCEPT !.err = err, !.result = <<>>]

Succeed(r, html) == [call[r] EXCEPT !.err = Nil, !.result = html]

\* service.recordError with an error that is not nil: one entry at level error
\* and one exception captured (the server wires a logger and a hub)
recordError(st) == [st EXCEPT !.errorEntries = @ + 1, !.captures = @ + 1]

\* the first markup returned for a slug is remembered
Serve(slug, html) ==
    IF slug \in DOMAIN served /\ ~served[slug].set
    THEN [served EXCEPT ![slug] = [set |-> TRUE, html |-> html]]
    ELSE served

\* GetPage up to the store lookup: trim the slug, refuse an empty one
GetPageBegin(r, slug) ==
    /\ pc[r] = "idle"
    /\ LET trimmedSlug == TrimSpace(slug)
           known == trimmedSlug \in DOMAIN served
           started == [NoCall EXCEPT !.slug = slug, !.trimmedSlug = trimmedSlug]
       IN /\ stats' = [stats EXCEPT ![r] =
                 [NoStats EXCEPT !.servedBefore = known /\ served[trimmedSlug].set,
                                 !.servedHTML = IF known THEN served[trimmedSlug].html ELSE <<>>,
                                 !.hadPage = HasPage(rows, trimmedSlug),
                                 !.hadHTML = IF HasPage(rows, trimmedSlug)
                                             THEN StoredHTML(rows, trimmedSlug) ELSE <<>>]]
          /\ IF slugMissing(trimmedSlug)
             THEN /\ pc' = [pc EXCEPT ![r] = "done"]
                  /\ call' = [call EXCEPT ![r] = [started EXCEPT !.err = New("slug is required")]]
             ELSE /\ pc' = [pc EXCEPT ![r] = "lookup"]
                  /\ call' = [call EXCEPT ![r] = started]
    /\ UNCHANGED <<rows, served, searchOp, selectOp, pipelineVars, limiterVars, repoVars, httpVars>>

\* s.repo.GetBySlug and the hit branch
GetPageLookup(r, dbFails) ==
    /\ pc[r] = "lookup"
    /\ LET got == GetBySlug(rows, call[r].trimmedSlug, dbFails)
           counted == [stats[r] EXCEPT !.lookups = @ + 1]
       IN IF got.err # Nil
          THEN /\ pc' = [pc EXCEPT ![r] = "done"]
               /\ call' = [call EXCEPT ![r] = Fail(r, Wrap(got.err, "retrieving page"))]
               /\ stats' = [stats EXCEPT ![r] = recordError(counted)]
               /\ served' = served
          ELSE IF IsStoredPage(got.page)
          THEN /\ pc' = [pc EXCEPT ![r] = "done"]
               /\ call' = [call EXCEPT ![r] = Succeed(r, StoredMarkup(got.page))]
               /\ stats' = [stats EXCEPT ![r] = [counted EXCEPT !.hit = TRUE, !.stored = got.page.HTML]]
               /\ served' = Serve(call[r].trimmedSlug, StoredMarkup(got.page))
          ELSE /\ pc' = [pc EXCEPT ![r] = "generate"]
               /\ call' = call
               /\ stats' = [stats EXCEPT ![r] = [counted EXCEPT !.miss = TRUE]]
               /\ served' = served
    /\ UNCHANGED <<rows, searchOp, selectOp, pipelineVars, limiterVars, repoVars, httpVars>>

\* s.generator.Generate, the empty check and validateBacklinks
GetPageGenerate(r, completion) ==
    /\ pc[r] = "generate"
    /\ LET gen == Generate(call[r].trimmedSlug, completion)
           html == TrimSpace(gen.html)
           counted == [stats[r] EXCEPT !.genCalls = @ + 1,
                                       !.generated = ~completion.failed,
                                       !.genFailed = completion.failed,
                                       !.genHTML = completion.cleaned]
           invalid == validateBacklinks(html, gen.backlinks)
       IN IF gen.err # Nil
          THEN /\ pc' = [pc EXCEPT ![r] = "done"]
               /\ call' = [call EXCEPT ![r] = Fail(r, Wrap(gen.err, "generating page"))]
               /\ stats' = [stats EXCEPT ![r] = recordError(counted)]
          ELSE IF html = <<>>
          THEN /\ pc' = [pc EXCEPT ![r] = "done"]
               /\ call' = [call EXCEPT ![r] =
                      Fail(r, Wrap(New("generated html is empty"), "validating generated html"))]
               /\ stats' = [stats EXCEPT ![r] = recordError(counted)]
          ELSE IF invalid # Nil
          THEN /\ pc' = [pc EXCEPT ![r] = "done"]
               /\ call' = [call EXCEPT ![r] = Fail(r, Wrap(invalid, "validating backlinks"))]
               /\ stats' = [stats EXCEPT ![r] = recordError(counted)]
          ELSE /\ pc' = [pc EXCEPT ![r] = "persist"]
               /\ call' = [call EXCEPT ![r].html = html]
               /\ stats' = [stats EXCEPT ![r] = [counted EXCEPT !.validated = TRUE]]
    /\ UNCHANGED <<rows, served, searchOp, selectOp, pipelineVars, limiterVars, repoVars, httpVars>>

\* s.repo.CreateOrUpdate(newPage) and the return of the generated markup
GetPagePersist(r, dbFails) ==
    /\ pc[r] = "persist"
    /\ LET newPage == NewPage(call[r].trimmedSlug, call[r].html)
           saved == CreateOrUpdate(rows, newPage, dbFails)
           counted == [stats[r] EXCEPT
                          !.writeCalls = @ + 1,
                          !.priorWriters = {o \in Requests \ {r} :
                              /\ pc[o] = "done"
                              /\ call[o].trimmedSlug = call[r].trimmedSlug
                              /\ stats[o].writeCalls > 0}]
       IN IF saved.err # Nil
          THEN /\ call' = [call EXCEPT ![r] = Fail(r, Wrap(saved.err, "persisting generated page"))]
               /\ stats' = [stats EXCEPT ![r] = recordError(counted)]
               /\ rows' = rows
               /\ served' = served
          ELSE /\ call' = [call EXCEPT ![r] = Succeed(r, call[r].html)]
               /\ stats' = [stats EXCEPT ![r] = [counted EXCEPT !.writes = @ + 1, !.stored = newPage.HTML]]
               /\ rows' = saved.rows
               /\ served' = Serve(call[r].trimmedSlug, call[r].html)
    /\ pc' = [pc EXCEPT ![r] = "done"]
    /\ UNCHANGED <<searchOp, selectOp, pipelineVars, limiterVars, repoVars, httpVars>>

\* s.repo.GetBySlug when ctx is done while the query runs: the query returns
\* the error of ctx, and GetPage takes its error branch
GetPageLookupCanceled(r) ==
    /\ pc[r] = "lookup"
    /\ LET err == Wrap(ErrCanceled, "fetching page by slug")
           counted == [stats[r] EXCEPT !.lookups = @ + 1]
       IN /\ call' = [call EXCEPT ![r] = Fail(r, Wrap(err, "retrieving page"))]
          /\ stats' = [stats EXCEPT ![r] = recordError(counted)]
    /\ pc' = [pc EXCEPT ![r] = "done"]
    /\ UNCHANGED <<rows, served, searchOp, selectOp, pipelineVars, limiterVars, repoVars, httpVars>>

\* s.generator.Generate when ctx is done while the completion is requested
GetPageGenerateCanceled(r) ==
    /\ pc[r] = "generate"
    /\ LET err == Wrap(ErrCanceled, "requesting chat completion")
           counted == [stats[r] EXCEPT !.genCalls = @ + 1, !.genFailed = TRUE]
       IN /\ call' = [call EXCEPT ![r] = Fail(r, Wrap(err, "generating page"))]
          /\ stats' = [stats EXCEPT ![r] = recordError(counted)]
    /\ pc' = [pc EXCEPT ![r] = "done"]
    /\ UNCHANGED <<rows, served, searchOp, selectOp, pipelineVars, limiterVars, repoVars, httpVars>>

\* s.repo.CreateOrUpdate when ctx is done before the INSERT is committed: the
\* statement fails with the error of ctx and no row is written
GetPagePersistCanceled(r) ==
    /\ pc[r] = "persist"
    /\ LET err == Wrap(ErrCanceled, "saving page")
           counted == [stats[r] EXCEPT
                          !.writeCalls = @ + 1,
                          !.priorWriters = {o \in Requests \ {r} :
                              /\ pc[o] = "done"
                              /\ call[o].trimmedSlug = call[r].trimmedSlug
                              /\ stats[o].writeCalls > 0}]
       IN /\ call' = [call EXCEPT ![r] = Fail(r, Wrap(err, "persisting generated page"))]
          /\ stats' = [stats EXCEPT ![r] = recordError(counted)]
    /\ pc' = [pc EXCEPT ![r] = "done"]
    /\ UNCHANGED <<rows, served, searchOp, selectOp, pipelineVars, limiterVars, repoVars, httpVars>>

\* the caller takes the return value; the request slot is free again
GetPageReturn(r) ==
    /\ pc[r] = "done"
    /\ pc' = [pc EXCEPT ![r] = "idle"]
    /\ call' = [call EXCEPT ![r] = NoCall]
    /\ stats' = [stats EXCEPT ![r] = NoStats]
    /\ UNCHANGED <<rows, served, searchOp, selectOp, pipelineVars, limiterVars, repoVars, httpVars>>

(***************************************************************************)
(* service.RandomSlug and service.MostRecentPage                           *)
(***************************************************************************)
\* a RandomSlug that reports an empty table as a fault of the page
RandomSlugUnmarked(table, pick, dbFails) ==
    LET got == RandomPage(table, pick, dbFails)
    IN IF got.err # Nil \/ ~got.page.found
       THEN [err |-> Wrap(New("random page slug is empty"), "validating random wiki page"), slug |-> <<>>]
       ELSE [err |-> Nil, slug |-> TrimSpace(got.page.Slug)]

RandomSlug(table, pick, dbFails) ==
    LET got == RandomPage(table, pick, dbFails)
        slug == TrimSpace(got.page.Slug)
    IN IF got.err # Nil
       THEN [err |-> Wrap(got.err, "selecting random wiki page"), slug |-> <<>>]
       ELSE IF ~got.page.found
       THEN [err |-> Wrap(ErrNoPages, "selecting random wiki page"), slug |-> <<>>]
       ELSE IF slug = <<>>
       THEN [err |-> Wrap(New("random page slug is empty"), "validating random wiki page"), slug |-> <<>>]
       ELSE [err |-> Nil, slug |-> slug]

MostRecentPage(table, dbFails) ==
    LET got == MostRecentRow(table, dbFails)
        trimmedSlug == TrimSpace(got.page.Slug)
        html == TrimSpace(got.page.HTML)
    IN IF got.err # Nil
       THEN [err |-> Wrap(got.err, "retrieving most recent wiki page"), page |-> NoPage]
       ELSE IF ~got.page.found
       THEN [err |-> Wrap(ErrNoPages, "retrieving most recent wiki page"), page |-> NoPage]
       ELSE IF trimmedSlug = <<>>
       THEN [err |-> Wrap(New("most recent page slug is empty"), "validating most recent wiki page"),
             page |-> NoPage]
       ELSE IF html = <<>>
       THEN [err |-> Wrap(New("most recent page html is empty"), "validating most recent wiki page"),
             page |-> NoPage]
       ELSE [err |-> Nil, page |-> [got.page EXCEPT !.Slug = trimmedSlug, !.HTML = html]]

RandomSlugCall(pick, dbFails) ==
    /\ pick \in 1..(IF Len(rows) = 0 THEN 1 ELSE Len(rows))
    /\ LET out == RandomSlug(rows, pick, dbFails)
       IN selectOp' = [op |-> "RandomSlug", empty |-> Len(rows) = 0, dbFails |-> dbFails,
                       err |-> out.err, slug |-> out.slug, html |-> <<>>]
    /\ UNCHANGED <<rows, pc, call, stats, served, searchOp, pipelineVars, limiterVars, repoVars, httpVars>>

MostRecentPageCall(dbFails) ==
    /\ LET out == MostRecentPage(rows, dbFails)
       IN selectOp' = [op |-> "MostRecentPage", empty |-> Len(rows) = 0, dbFails |-> dbFails,
                       err |-> out.err, slug |-> out.page.Slug, html |-> out.page.HTML]
    /\ UNCHANGED <<rows, pc, call, stats, served, searchOp, pipelineVars, limiterVars, repoVars, httpVars>>

(***************************************************************************)
(* service.Search                                                          *)
(***************************************************************************)
\* the loop of Search over the Searcher's slugs: trim, drop empty
RECURSIVE SearchResults(_)
SearchResults(slugs) ==
    IF slugs = <<>> THEN <<>>
    ELSE LET trimmedSlug == TrimSpace(Head(slugs))
         IN IF trimmedSlug = <<>> THEN SearchResults(Tail(slugs))
            ELSE <<[Slug |-> trimmedSlug]>> \o SearchResults(Tail(slugs))

\* if trimmedQuery == ""
queryMissing(trimmedQuery) == trimmedQuery = <<>>

\* a Search that hands the Searcher's list on without truncating it
SearchUntruncated(query, limit, outcome) ==
    LET trimmedQuery == TrimSpace(query)
        effective == IF limit <= 0 THEN defaultSearchLimit ELSE limit
    IN IF queryMissing(trimmedQuery)
       THEN [calls |-> 0, capturedQuery |-> <<>>, capturedLimit |-> 0,
             err |-> New("query is required"), results |-> <<>>]
       ELSE IF outcome.failed
       THEN [calls |-> 1, capturedQuery |-> trimmedQuery, capturedLimit |-> effective,
             err |-> Wrap(ErrSearcher, "llm search failure"), results |-> <<>>]
       ELSE [calls |-> 1, capturedQuery |-> trimmedQuery, capturedLimit |-> effective,
             err |-> Nil, results |-> SearchResults(outcome.slugs)]

\* service.Search; calls, capturedQuery and capturedLimit are what the
\* Searcher has seen when Search returns
Search(query, limit, outcome) ==
    LET trimmedQuery == TrimSpace(query)
        effective == IF limit <= 0 THEN defaultSearchLimit ELSE limit
        results == SearchResults(outcome.slugs)
    IN IF queryMissing(trimmedQuery)
       THEN [calls |-> 0, capturedQuery |-> <<>>, capturedLimit |-> 0,
             err |-> New("query is required"), results |-> <<>>]
       ELSE IF outcome.failed
       THEN [calls |-> 1, capturedQuery |-> trimmedQuery, capturedLimit |-> effective,
             err |-> Wrap(ErrSearcher, "llm search failure"), results |-> <<>>]
       ELSE [calls |-> 1, capturedQuery |-> trimmedQuery, capturedLimit |-> effective,
             err |-> Nil,
             results |-> IF Len(results) > effective THEN SubSeq(results, 1, effective) ELSE results]

SearchCall(query, limit, outcome) ==
    /\ LET out == Search(query, limit, outcome)
       IN searchOp' = [called |-> TRUE, query |-> query, limit |-> limit, outcome |-> outcome,
                       calls |-> out.calls, capturedQuery |-> out.capturedQuery,
                       capturedLimit |-> out.capturedLimit,
                       err |-> out.err, results |-> out.results]
    /\ UNCHANGED <<rows, pc, call, stats, served, selectOp, pipelineVars, limiterVars, repoVars, httpVars>>

(***************************************************************************)
(* Repository.Create                                                       *)
(***************************************************************************)
CreateCall(page, dbFails) ==
    /\ LET created == Create(rows, page, dbFails)
       IN /\ rows' = created.rows
          /\ createOp' = [called |-> TRUE, before |-> rows, page |-> page,
                          dbFails |-> dbFails, err |-> created.err]
    /\ UNCHANGED <<pc, call, stats, served, searchOp, selectOp, pipelineVars, limiterVars, httpVars>>

(***************************************************************************)
(* clientIPFromRequest, called on its own                                  *)
(***************************************************************************)
clientIPFromRequestCall(req) ==
    /\ ~keyOp.called
    /\ keyOp' = [called |-> TRUE, req |-> req, key |-> clientIPFromRequest(req)]
    /\ UNCHANGED <<serviceVars, pipelineVars, limiterVars, repoVars, gate>>

(***************************************************************************)
(* the backlink extractor and validator, called on their own               *)
(***************************************************************************)
\* one call is followed from the start
extractBacklinksCall(html) ==
    /\ backlinkOp.op = "none"
    /\ backlinkOp' = [op |-> "extract", html |-> html, backlinks |-> <<>>,
                      err |-> Nil, extracted |-> extractBacklinks(html)]
    /\ UNCHANGED <<serviceVars, cleanOp, treeOp, limiterVars, repoVars, httpVars>>

validateBacklinksCall(html, backlinks) ==
    /\ backlinkOp.op = "none"
    /\ backlinkOp' = [op |-> "validate", html |-> html, backlinks |-> backlinks,
                      err |-> validateBacklinks(html, backlinks), extracted |-> <<>>]
    /\ UNCHANGED <<serviceVars, cleanOp, treeOp, limiterVars, repoVars, httpVars>>

(***************************************************************************)
(* the sanitizer, called on a text and on the same text in a fence         *)
(***************************************************************************)
\* one pair of calls is followed from the start
cleanGeneratedHTMLCall(content, opener, closer) ==
    /\ ~cleanOp.called
    /\ cleanOp' = [called |-> TRUE, content |-> content,
                   fenced |-> opener \o content \o closer,
                   bare |-> cleanGeneratedHTML(content),
                   wrapped |-> cleanGeneratedHTML(opener \o content \o closer)]
    /\ UNCHANGED <<serviceVars, backlinkOp, treeOp, limiterVars, repoVars, httpVars>>

(***************************************************************************)
(* the sanitizer on a parsed document                                      *)
(***************************************************************************)
cleanDocumentCall(doc) ==
    /\ ~treeOp.called
    /\ treeOp' = [called |-> TRUE, doc |-> doc, kids |-> sanitizedChildren(doc),
                  clean |-> cleanDocument(doc)]
    /\ UNCHANGED <<serviceVars, backlinkOp, cleanOp, limiterVars, repoVars, httpVars>>

(***************************************************************************)
(* RateLimiter.Allow and RateLimiter.pruneStale, one action per step       *)
(***************************************************************************)
\* the clock reading of a goroutine that holds one: a call before its
\* return, the sweep before its end
Readings ==
    {allow[g].now : g \in {c \in Callers : allow[c].pc \notin {"idle", "done"}}}
    \cup (IF sweep.pc = "idle" THEN {} ELSE {sweep.now})

\* time passes
Tick ==
    /\ clock < MaxClock
    /\ \A now \in Readings : clock + 1 - now <= MaxDelay
    /\ clock' = clock + 1
    /\ UNCHANGED <<serviceVars, pipelineVars, repoVars, httpVars, limiter, clients, mu, allow, sweep, history>>

\* Allow up to the lock: the key of an unknown client, now := rl.now()
AllowBegin(g, key) ==
    /\ allow[g].pc = "idle"
    /\ allow' = [allow EXCEPT ![g] = [NoAllow EXCEPT !.pc = "lock", !.key = KeyOf(key),
                                                     !.now = clock]]
    /\ UNCHANGED <<serviceVars, pipelineVars, repoVars, httpVars, limiter, clients, clock, mu, sweep, history>>

\* rl.mu.Lock()
AllowLock(g) ==
    /\ allow[g].pc = "lock"
    /\ TryLock(mu)
    /\ mu' = g
    /\ allow' = [allow EXCEPT ![g].pc = "refill"]
    /\ UNCHANGED <<serviceVars, pipelineVars, repoVars, httpVars, limiter, clients, clock, sweep, history>>

\* the record is looked up, created when missing, and refilled
AllowRefill(g) ==
    /\ allow[g].pc = "refill"
    /\ LET key == allow[g].key
           now == allow[g].now
           ok == clients[key].present
           client == IF ok THEN clients[key] ELSE NewClient(now, limiter)
           refilled == Refill(client, now, limiter)
       IN /\ clients' = [clients EXCEPT ![key] = refilled]
          /\ allow' = [allow EXCEPT ![g].pc = "check"]
    /\ UNCHANGED <<serviceVars, pipelineVars, repoVars, httpVars, limiter, clock, mu, sweep, history>>

\* if client.tokens < 1: the call is denied; the deferred Unlock runs
AllowCheck(g) ==
    /\ allow[g].pc = "check"
    /\ LET key == allow[g].key
       IN IF Admits(clients[key])
          THEN /\ allow' = [allow EXCEPT ![g].pc = "take"]
               /\ UNCHANGED <<clients, mu>>
          ELSE /\ clients' = [clients EXCEPT ![key].lastSeen = allow[g].now]
               /\ allow' = [allow EXCEPT ![g].pc = "done", ![g].ok = FALSE]
               /\ mu' = 0
    /\ UNCHANGED <<serviceVars, pipelineVars, repoVars, httpVars, limiter, clock, sweep, history>>

\* client.tokens -= 1: the call is admitted; the deferred Unlock runs
AllowTake(g) ==
    /\ allow[g].pc = "take"
    /\ LET key == allow[g].key
       IN /\ clients' = [clients EXCEPT ![key].tokens = @ - OneToken,
                                        ![key].lastSeen = allow[g].now]
          /\ allow' = [allow EXCEPT ![g].pc = "done", ![g].ok = TRUE]
    /\ mu' = 0
    /\ UNCHANGED <<serviceVars, pipelineVars, repoVars, httpVars, limiter, clock, sweep, history>>

\* the caller of Allow goes on
AllowReturn(g) ==
    /\ allow[g].pc = "done"
    /\ allow' = [allow EXCEPT ![g] = NoAllow]
    /\ UNCHANGED <<serviceVars, pipelineVars, repoVars, httpVars, limiter, clients, clock, mu, sweep, history>>

\* the caller of Allow goes on, and the call is written down
AllowReturnLogged(g) ==
    /\ allow[g].pc = "done"
    /\ allow' = [allow EXCEPT ![g] = NoAllow]
    /\ history' = Append(history, [key |-> allow[g].key, now |-> allow[g].now,
                                   ok |-> allow[g].ok])
    /\ UNCHANGED <<serviceVars, pipelineVars, repoVars, httpVars, limiter, clients, clock, mu, sweep>>

\* the ticker fires and pruneStale begins: now := rl.now()
SweepBegin ==
    /\ sweep.pc = "idle"
    /\ limiter.ttl > 0
    /\ clock >= sweep.next
    /\ sweep' = [pc |-> "lock", now |-> clock, next |-> sweep.next + limiter.ttl]
    /\ UNCHANGED <<serviceVars, pipelineVars, repoVars, httpVars, limiter, clients, clock, mu, allow, history>>

\* rl.mu.Lock() of pruneStale
SweepLock ==
    /\ sweep.pc = "lock"
    /\ TryLock(mu)
    /\ mu' = Sweeper
    /\ sweep' = [sweep EXCEPT !.pc = "prune"]
    /\ UNCHANGED <<serviceVars, pipelineVars, repoVars, httpVars, limiter, clients, clock, allow, history>>

\* the loop of pruneStale, and the deferred Unlock
SweepPrune ==
    /\ sweep.pc = "prune"
    /\ clients' = [k \in Keys |->
                      IF clients[k].present /\ Stale(clients[k], sweep.now, limiter.ttl)
                      THEN NoClient ELSE clients[k]]
    /\ mu' = 0
    /\ sweep' = [sweep EXCEPT !.pc = "idle"]
    /\ UNCHANGED <<serviceVars, pipelineVars, repoVars, httpVars, limiter, clock, allow, history>>

(***************************************************************************)
(* Server.rateLimitMiddleware and the wiki handler behind it               *)
(***************************************************************************)
\* the middleware up to the lock of Allow: the key of the request, and
\* now := rl.now()
MiddlewareEnter(g, req) ==
    /\ gate[g].pc = "idle"
    /\ allow[g].pc = "idle"
    /\ pc[g] = "idle"
    /\ LET ip == KeyText(clientIPFromRequest(req))
       IN /\ gate' = [gate EXCEPT ![g] = [NoGate EXCEPT !.pc = "allow", !.ip = ip]]
          /\ allow' = [allow EXCEPT ![g] = [NoAllow EXCEPT !.pc = "lock", !.key = KeyOf(ip),
                                                           !.now = clock]]
    /\ UNCHANGED <<serviceVars, pipelineVars, repoVars, keyOp,
                   limiter, clients, clock, mu, sweep, history>>

\* Allow has returned: next(ctx) when it admits, else the response 429 with
\* Retry-After: 1
MiddlewareDecide(g) ==
    /\ gate[g].pc = "allow"
    /\ allow[g].pc = "done"
    /\ allow' = [allow EXCEPT ![g] = NoAllow]
    /\ IF Proceeds(allow[g].ok)
       THEN gate' = [gate EXCEPT ![g].pc = "handler", ![g].handled = @ + 1]
       ELSE gate' = [gate EXCEPT ![g].pc = "responded", ![g].status = 429,
                                 ![g].retryAfter = "1"]
    /\ UNCHANGED <<serviceVars, pipelineVars, repoVars, keyOp,
                   limiter, clients, clock, mu, sweep, history>>

\* wikiHandler calls s.wiki.GetPage
HandlerBegin(g, slug) ==
    /\ gate[g].pc = "handler"
    /\ GetPageBegin(g, TrimSpace(slug))

\* wikiHandler takes the result of GetPage and answers
HandlerReturn(g) ==
    /\ gate[g].pc = "handler"
    /\ pc[g] = "done"
    /\ gate' = [gate EXCEPT ![g].pc = "responded",
                            ![g].status = IF call[g].err = Nil THEN 200
                                          ELSE classifyError(call[g].err)]
    /\ pc' = [pc EXCEPT ![g] = "idle"]
    /\ call' = [call EXCEPT ![g] = NoCall]
    /\ stats' = [stats EXCEPT ![g] = NoStats]
    /\ UNCHANGED <<rows, served, searchOp, selectOp, pipelineVars, repoVars, keyOp, limiterVars>>

\* the response has been written
ResponseSent(g) ==
    /\ gate[g].pc = "responded"
    /\ gate' = [gate EXCEPT ![g] = NoGate]
    /\ UNCHANGED <<serviceVars, pipelineVars, repoVars, keyOp, limiterVars>>

(***************************************************************************)
(* specifications                                                          *)
(***************************************************************************)
Next ==
    \/ \E r \in Requests, slug \in SlugInputs : GetPageBegin(r, slug)
    \/ \E r \in Requests, dbFails \in BOOLEAN : GetPageLookup(r, dbFails)
    \/ \E r \in Requests, completion \in Completions : GetPageGenerate(r, completion)
    \/ \E r \in Requests, dbFails \in BOOLEAN : GetPagePersist(r, dbFails)
    \/ \E r \in Requests : GetPageReturn(r)

\* the wiki service under concurrent GetPage calls
Spec == Init /\ [][Next]_vars

NextCancel ==
    \/ \E r \in Requests, slug \in SlugInputs : GetPageBegin(r, slug)
    \/ \E r \in Requests, dbFails \in BOOLEAN : GetPageLookup(r, dbFails)
    \/ \E r \in Requests, completion \in Completions : GetPageGenerate(r, completion)
    \/ \E r \in Requests, dbFails \in BOOLEAN : GetPagePersist(r, dbFails)
    \/ \E r \in Requests : GetPageLookupCanceled(r)
    \/ \E r \in Requests : GetPageGenerateCanceled(r)
    \/ \E r \in Requests : GetPagePersistCanceled(r)
    \/ \E r \in Requests : GetPageReturn(r)

\* the wiki service under concurrent GetPage calls whose ctx may be
\* canceled during any of the blocking calls
SpecCancel == Init /\ [][NextCancel]_vars

NextCreate ==
    \E page \in CreatePages, dbFails \in BOOLEAN : CreateCall(page, dbFails)

\* the repository answering Create calls
SpecCreate == Init /\ [][NextCreate]_vars

NextClientIP ==
    \E req \in HTTPRequests : clientIPFromRequestCall(req)

\* the key derivation applied to one request
SpecClientIP == Init /\ [][NextClientIP]_vars

NextSelect ==
    \/ \E slug \in SlugInputs : GetPageBegin(1, slug)
    \/ \E dbFails \in BOOLEAN : GetPageLookup(1, dbFails)
    \/ \E completion \in Completions : GetPageGenerate(1, completion)
    \/ \E dbFails \in BOOLEAN : GetPagePersist(1, dbFails)
    \/ GetPageReturn(1)
    \/ \E pick \in 1..Cardinality(Slugs), dbFails \in BOOLEAN : RandomSlugCall(pick, dbFails)
    \/ \E dbFails \in BOOLEAN : MostRecentPageCall(dbFails)

\* the wiki service answering RandomSlug and MostRecentPage calls while
\* GetPage calls, one at a time, fill the table
SpecSelect == Init /\ [][NextSelect]_vars

NextSearch ==
    \E query \in QueryInputs, limit \in LimitInputs, outcome \in SearcherOutcomes :
        SearchCall(query, limit, outcome)

\* the wiki service answering Search calls
SpecSearch == Init /\ [][NextSearch]_vars

NextValidate ==
    \/ \E slug \in SlugInputs : GetPageBegin(1, slug)
    \/ \E dbFails \in BOOLEAN : GetPageLookup(1, dbFails)
    \/ \E completion \in Completions : GetPageGenerate(1, completion)
    \/ \E dbFails \in BOOLEAN : GetPagePersist(1, dbFails)
    \/ GetPageReturn(1)
    \/ \E query \in QueryInputs, limit \in LimitInputs, outcome \in SearcherOutcomes :
           SearchCall(query, limit, outcome)

\* the wiki service answering GetPage calls, one at a time, and Search calls
SpecValidate == Init /\ [][NextValidate]_vars

NextBacklinks ==
    \/ \E html \in ExtractorMarkups : extractBacklinksCall(html)
    \/ \E html \in ValidatorMarkups, backlinks \in SlugLists :
           validateBacklinksCall(html, backlinks)

\* the backlink extractor and the backlink validator on every markup and list
SpecBacklinks == Init /\ [][NextBacklinks]_vars

NextClean ==
    \E content \in Contents, opener \in FenceOpeners, closer \in FenceClosers :
        cleanGeneratedHTMLCall(content, opener, closer)

\* the sanitizer on every text, bare and fenced
SpecClean == Init /\ [][NextClean]_vars

NextTree ==
    \E doc \in Documents : cleanDocumentCall(doc)

\* the sanitizer on every parsed document
SpecTree == Init /\ [][NextTree]_vars

NextGate ==
    \/ \E g \in Callers, req \in GateRequests : MiddlewareEnter(g, req)
    \/ \E g \in Callers : AllowLock(g)
    \/ \E g \in Callers : AllowRefill(g)
    \/ \E g \in Callers : AllowCheck(g)
    \/ \E g \in Callers : AllowTake(g)
    \/ \E g \in Callers : MiddlewareDecide(g)
    \/ \E g \in Callers, slug \in GateSlugs : HandlerBegin(g, slug)
    \/ \E g \in Callers, dbFails \in BOOLEAN : GetPageLookup(g, dbFails)
    \/ \E g \in Callers, completion \in GateCompletions : GetPageGenerate(g, completion)
    \/ \E g \in Callers, dbFails \in BOOLEAN : GetPagePersist(g, dbFails)
    \/ \E g \in Callers : HandlerReturn(g)
    \/ \E g \in Callers : ResponseSent(g)

\* the server answering the requests one client sends to /wiki/{slug} within
\* one instant, behind the rate limiter
SpecGate == Init /\ [][NextGate]_vars

NextScenario ==
    \/ Tick
    \/ Len(history) < MaxHistory /\ AllowBegin(1, ClientKey)
    \/ AllowLock(1)
    \/ AllowRefill(1)
    \/ AllowCheck(1)
    \/ AllowTake(1)
    \/ AllowReturnLogged(1)
    \/ SweepBegin
    \/ SweepLock
    \/ SweepPrune

\* the rate limiter of the tests (capacity 3, 3 tokens per second) answering
\* one client, one call at a time
SpecScenario == Init /\ [][NextScenario]_vars

NextLimiter ==
    \/ Tick
    \/ \E g \in Callers : AllowBegin(g, ClientKey)
    \/ \E g \in Callers : AllowLock(g)
    \/ \E g \in Callers : AllowRefill(g)
    \/ \E g \in Callers : AllowCheck(g)
    \/ \E g \in Callers : AllowTake(g)
    \/ \E g \in Callers : AllowReturn(g)
    \/ SweepBegin
    \/ SweepLock
    \/ SweepPrune

\* the rate limiter of the tests under concurrent Allow calls of one client
\* and the sweep
SpecLimiter == Init /\ [][NextLimiter]_vars

\* the rate limiter with either refill rate
InitSweep ==
    /\ InitService
    /\ \E settings \in {TestSettings, SlowSettings} : NewRateLimiter(settings)

NextSweep ==
    \/ Tick
    \/ AllowBegin(1, ClientKey)
    \/ AllowLock(1)
    \/ AllowRefill(1)
    \/ AllowCheck(1)
    \/ AllowTake(1)
    \/ AllowReturn(1)
    \/ SweepBegin
    \/ SweepLock
    \/ SweepPrune

\* the rate limiter answering one client, one call at a time, while the sweep
\* runs: time
\* passes, a goroutine that can go on does, and no goroutine waits for the
\* lock for ever
SpecSweep ==
    /\ InitSweep
    /\ [][NextSweep]_vars
    /\ WF_vars(Tick)
    /\ WF_vars(AllowLock(1) \/ AllowRefill(1) \/ AllowCheck(1) \/ AllowTake(1) \/ AllowReturn(1))
    /\ WF_vars(SweepBegin \/ SweepPrune)
    /\ SF_vars(SweepLock)

NextIsolation ==
    \/ Tick
    \/ \E g \in TwoClients : AllowBegin(g, CallerKey(g))
    \/ \E g \in TwoClients : AllowLock(g)
    \/ \E g \in TwoClients : AllowRefill(g)
    \/ \E g \in TwoClients : AllowCheck(g)
    \/ \E g \in TwoClients : AllowTake(g)
    \/ \E g \in TwoClients : AllowReturn(g)
    \/ SweepBegin
    \/ SweepLock
    \/ SweepPrune

\* the rate limiter under concurrent Allow calls of two clients, one call of
\* each at a time, and the sweep
SpecIsolation == Init /\ [][NextIsolation]_vars

\* the rate limiter under either setting answering one client, one call at
\* a time, with the calls written down
SpecRate == InitSweep /\ [][NextScenario]_vars

\* a burst: the sweep is due, the record of the unknown client is stale, and
\* the client has been admitted made times at this instant, by calls that have
\* returned
InitBurst ==
    /\ InitService
    /\ limiter = TestSettings
    /\ clock = TestSettings.ttl + 1
    /\ mu = 0
    /\ allow = [g \in Callers |-> NoAllow]
    /\ sweep = [pc |-> "idle", now |-> 0, next |-> TestSettings.ttl]
    /\ \E made \in 0..(TestSettings.maxTokens \div OneToken) :
          /\ history = [i \in 1..made |-> [key |-> ClientKey, now |-> clock, ok |-> TRUE]]
          /\ clients = [k \in Keys |->
                IF k = ClientKey
                THEN IF made = 0 THEN NoClient
                     ELSE [present |-> TRUE,
                           tokens |-> TestSettings.maxTokens - made * OneToken,
                           last |-> clock, lastSeen |-> clock]
                ELSE [present |-> TRUE, tokens |-> TestSettings.maxTokens - OneToken,
                      last |-> 0, lastSeen |-> 0]]

NextBurst ==
    \/ \E g \in Callers : AllowBegin(g, ClientKey)
    \/ \E g \in Callers : AllowLock(g)
    \/ \E g \in Callers : AllowRefill(g)
    \/ \E g \in Callers : AllowCheck(g)
    \/ \E g \in Callers : AllowTake(g)
    \/ SweepBegin
    \/ SweepLock
    \/ SweepPrune

\* concurrent Allow calls of one client at one instant, one per caller, while
\* the sweep runs
SpecBurst == InitBurst /\ [][NextBurst]_vars

(***************************************************************************)
(* properties                                                              *)
(***************************************************************************)
Started(r) == pc[r] # "idle"

Done(r) == pc[r] = "done"

Returned(r) == Done(r) /\ call[r].err = Nil

\* the backlinks of a fragment pass validation against the fragment
ValidFragment(html) == validateBacklinks(html, extractBacklinks(html)) = Nil

\* C1: a GetPage call for a slug whose stored page has non-empty markup, the
\* slug given plain or padded, never calls the generator: its count of
\* Generate calls is 0 at every point of the call, and it never waits for the
\* generator or for a write.
C1_StoredPageNeverGenerates ==
    \A r \in Requests :
        (Started(r) /\ (stats[r].hadPage \/ stats[r].hit)) =>
            /\ stats[r].genCalls = 0
            /\ pc[r] \in {"lookup", "done"}

\* C1 happens: a call with a padded slug found the stored page and returned
\* without a Generate call
C1_Witness ==
    \E r \in Requests :
        /\ Returned(r)
        /\ stats[r].hadPage
        /\ call[r].slug # call[r].trimmedSlug
        /\ stats[r].lookups = 1
        /\ stats[r].genCalls = 0

C4_GenerateStep(r) ==
    (pc[r] = "generate" /\ pc'[r] = "done" /\ stats'[r].genFailed) => rows' = rows

\* C4: when the generator fails in a GetPage call that found no stored page,
\* the call makes no store write and the failing step leaves the table as it
\* was, the generator has been called exactly once, and GetPage returns the
\* generator's error.
C4_GeneratorFailureWritesNothing ==
    /\ [](\A r \in Requests :
            (Done(r) /\ stats[r].miss /\ stats[r].genFailed) =>
                /\ stats[r].writeCalls = 0
                /\ stats[r].writes = 0
                /\ stats[r].genCalls = 1
                /\ call[r].err # Nil
                /\ Is(call[r].err, ErrGenerator)
                /\ call[r].result = <<>>)
    /\ [][\A r \in Requests : C4_GenerateStep(r)]_vars

\* C4 happens: a call for a slug that is not in the table ended in the
\* generator's error
C4_Witness ==
    \E r \in Requests :
        /\ Done(r)
        /\ stats[r].miss
        /\ stats[r].genFailed
        /\ Is(call[r].err, ErrGenerator)
        /\ RowsWithSlug(rows, call[r].trimmedSlug) = {}

\* every internal link of a fragment has a target free of path separators and
\* of the disallowed characters, and the fragment holds the reference to it
LinksSound(html) ==
    \A i \in 1..Len(extractBacklinks(html)) :
        LET link == extractBacklinks(html)[i]
        IN /\ link # <<>>
           /\ \A k \in 1..Len(link) : link[k] \notin ({"/"} \cup disallowedBacklinkCharacters)
           /\ Contains(ToLower(html), WikiPath \o ToLower(link))

\* every stored page is keyed by a unique non-empty slug and holds non-empty,
\* sanitized markup whose backlinks validate
C5_StoredPagesSound ==
    \A i \in 1..Len(rows) :
        /\ rows[i].Slug # <<>>
        /\ RowsWithSlug(rows, rows[i].Slug) = {i}
        /\ rows[i].HTML # <<>>
        /\ TrimSpace(rows[i].HTML) = rows[i].HTML
        /\ rows[i].HTML \in CleanedHTML
        /\ LinksSound(rows[i].HTML)

\* the table changes only by the last step of a GetPage call that generated
\* and validated, and a step that ends a call in an error leaves the table
C5_WriteStep ==
    /\ rows' # rows =>
           \E r \in Requests :
               /\ pc[r] = "persist"
               /\ pc'[r] = "done"
               /\ call'[r].err = Nil
               /\ stats[r].genCalls = 1
               /\ stats[r].generated
               /\ LinksSound(call[r].html)
               /\ rows' = Append(rows, [ID |-> Len(rows) + 1,
                                        Slug |-> call[r].trimmedSlug,
                                        HTML |-> call[r].html])
    /\ \A r \in Requests :
           (pc[r] # "done" /\ pc'[r] = "done" /\ call'[r].err # Nil) => rows' = rows

\* C5: in every reachable state every page of the table has non-empty,
\* sanitized markup that passed backlink validation; GetPage writes only as
\* its last step, after generation, sanitization, extraction and validation
\* succeeded, and a failure of any step ends the call with the table unchanged.
C5_OnlyValidatedPagesAreStored ==
    /\ []C5_StoredPagesSound
    /\ [][C5_WriteStep]_vars

\* C5 happens: the table holds a page, and a call has just been refused at
\* validation
C5_Witness ==
    /\ Len(rows) > 0
    /\ \E r \in Requests :
           /\ Done(r)
           /\ stats[r].generated
           /\ ~LinksSound(stats[r].genHTML)
           /\ call[r].err # Nil

\* two calls for the same slug that both missed, both generated a valid
\* fragment and both wrote, first before second, with no database failure
RacedWrites(first, second) ==
    /\ first # second
    /\ Done(first) /\ Done(second)
    /\ call[first].trimmedSlug = call[second].trimmedSlug
    /\ stats[first].miss /\ stats[second].miss
    /\ stats[first].writeCalls = 1 /\ stats[second].writeCalls = 1
    /\ first \in stats[second].priorWriters
    /\ ~Is(call[first].err, ErrDatabase)
    /\ ~Is(call[second].err, ErrDatabase)

\* C6: when two GetPage calls for the same missing slug both observe a miss,
\* both call the generator and both store writes succeed; the store upserts by
\* slug, so afterwards exactly one page exists for the slug, its markup is
\* that of the later write, and neither call fails because of the other.
C6_LastWriteWins ==
    \A first \in Requests, second \in Requests :
        RacedWrites(first, second) =>
            /\ stats[first].genCalls = 1 /\ stats[second].genCalls = 1
            /\ call[first].err = Nil /\ call[second].err = Nil
            /\ Cardinality(RowsWithSlug(rows, call[second].trimmedSlug)) = 1
            /\ StoredHTML(rows, call[second].trimmedSlug) = call[second].html

\* what the code does in the case of C6: the later write is refused by the
\* unique index, its call returns that error, and the page of the first write
\* stays
C6_FirstWriteWins ==
    \A first \in Requests, second \in Requests :
        RacedWrites(first, second) =>
            /\ stats[first].genCalls = 1 /\ stats[second].genCalls = 1
            /\ call[first].err = Nil
            /\ Is(call[second].err, ErrUniqueSlug)
            /\ Cardinality(RowsWithSlug(rows, call[second].trimmedSlug)) = 1
            /\ StoredHTML(rows, call[second].trimmedSlug) = call[first].html

\* the case of C6 happens, with two different fragments
C6_Raced ==
    \E first \in Requests, second \in Requests :
        /\ RacedWrites(first, second)
        /\ call[first].html # call[second].html

\* C7: once a GetPage call has returned markup for a slug, every GetPage call
\* for that slug that begins later never calls the generator, can fail only
\* for a database failure of its lookup, and when it returns markup returns
\* the markup of the first call, whatever the other calls do.
C7_ReadThrough ==
    \A r \in Requests :
        (Started(r) /\ stats[r].servedBefore) =>
            /\ stats[r].genCalls = 0
            /\ stats[r].writeCalls = 0
            /\ pc[r] \in {"lookup", "done"}
            /\ Done(r) =>
                   \/ call[r].err = Nil /\ call[r].result = stats[r].servedHTML
                   \/ Is(call[r].err, ErrDatabase) /\ call[r].result = <<>>

\* C7 happens: a call served from the table returned the markup first
\* returned for its slug, while another call that missed the same slug
\* before the first return has ended
C7_Witness ==
    \E r \in Requests, o \in Requests :
        /\ r # o
        /\ Returned(r)
        /\ stats[r].servedBefore
        /\ stats[r].hit
        /\ call[r].result = stats[r].servedHTML
        /\ Done(o)
        /\ call[o].trimmedSlug = call[r].trimmedSlug
        /\ stats[o].writeCalls = 1
        /\ call[o].html # call[r].result

\* C8: RandomSlug and MostRecentPage on an empty table (that the database
\* answers for) both fail with an error that eris.Is recognises as ErrNoPages
\* under the context each wraps around it, and on a table with pages neither
\* returns an error that is ErrNoPages.
C8_NoPagesCondition ==
    selectOp.op # "none" =>
        /\ (selectOp.empty /\ ~selectOp.dbFails) =>
               /\ Is(selectOp.err, ErrNoPages)
               /\ selectOp.err # ErrNoPages
               /\ selectOp.slug = <<>>
        /\ ~selectOp.empty => ~Is(selectOp.err, ErrNoPages)
        /\ (~selectOp.empty /\ ~selectOp.dbFails) =>
               /\ selectOp.err = Nil
               /\ RowsWithSlug(rows, selectOp.slug) # {}

\* C8 happens: RandomSlug has answered an empty table with ErrNoPages
C8_Witness ==
    /\ selectOp.op = "RandomSlug"
    /\ selectOp.empty
    /\ Len(rows) = 0
    /\ Is(selectOp.err, ErrNoPages)

\* the Searcher's slugs trimmed, the empty ones dropped, cut to limit
ExpectedResults(slugs, limit) ==
    LET trimmedAll == [i \in 1..Len(slugs) |-> TrimSpace(slugs[i])]
        kept == SelectSeq(trimmedAll, LAMBDA x : x # <<>>)
        n == IF Len(kept) > limit THEN limit ELSE Len(kept)
    IN [i \in 1..n |-> [Slug |-> kept[i]]]

\* a Search call with a query, answered with what limit stands for
SearchDelegates(limit) ==
    /\ searchOp.calls = 1
    /\ searchOp.capturedQuery = TrimSpace(searchOp.query)
    /\ searchOp.capturedLimit = limit
    /\ searchOp.outcome.failed => (Is(searchOp.err, ErrSearcher) /\ searchOp.results = <<>>)
    /\ ~searchOp.outcome.failed =>
           /\ searchOp.err = Nil
           /\ searchOp.results = ExpectedResults(searchOp.outcome.slugs, limit)
           /\ Len(searchOp.results) <= limit

\* C9: Search(query, limit) calls the Searcher exactly once with the trimmed
\* query and the limit, and its result is the Searcher's slug list with each
\* slug trimmed, empty slugs dropped, order kept, cut to at most limit entries.
C9_SearchUsesLimit ==
    (searchOp.called /\ TrimSpace(searchOp.query) # <<>>) =>
        SearchDelegates(searchOp.limit)

\* C9 as the code has it: the limit is the one given when it is positive and
\* defaultSearchLimit when it is not
C9_SearchUsesEffectiveLimit ==
    (searchOp.called /\ TrimSpace(searchOp.query) # <<>>) =>
        SearchDelegates(IF searchOp.limit <= 0 THEN defaultSearchLimit ELSE searchOp.limit)

\* C9 happens: a Search with limit 0 got eleven slugs and kept the first ten
C9_Witness ==
    /\ searchOp.called
    /\ searchOp.limit = 0
    /\ searchOp.query # TrimSpace(searchOp.query)
    /\ Len(searchOp.outcome.slugs) = 11
    /\ Len(searchOp.results) = defaultSearchLimit

\* C10: GetPage with a slug that is empty after trimming returns an error
\* without a store lookup, a generator call or a store write, and Search with
\* a query that is empty after trimming returns an error without a Searcher
\* call.
C10_EmptyInputHasNoEffect ==
    /\ \A r \in Requests :
           (Started(r) /\ TrimSpace(call[r].slug) = <<>>) =>
               /\ Done(r)
               /\ call[r].err # Nil
               /\ call[r].result = <<>>
               /\ stats[r].lookups = 0
               /\ stats[r].genCalls = 0
               /\ stats[r].writeCalls = 0
               /\ stats[r].writes = 0
    /\ (searchOp.called /\ TrimSpace(searchOp.query) = <<>>) =>
           /\ searchOp.err # Nil
           /\ searchOp.results = <<>>
           /\ searchOp.calls = 0

\* C10 happens: a GetPage call with a blank slug and a Search call with a
\* blank query have both been refused
C10_Witness ==
    /\ \E r \in Requests :
           /\ Done(r)
           /\ call[r].slug = <<" ">>
           /\ call[r].err # Nil
    /\ searchOp.called
    /\ searchOp.query = <<" ">>
    /\ searchOp.err # Nil

Canceled(r) == Done(r) /\ Is(call[r].err, ErrCanceled)

\* C21: a GetPage call whose ctx was canceled during the store lookup, the
\* generator call or the store write is aborted with the error, has made each
\* blocking call at most once, has written nothing, and has produced no error
\* log entry and no crash report.
C21_CanceledRequestIsSilent ==
    \A r \in Requests :
        Canceled(r) =>
            /\ call[r].result = <<>>
            /\ stats[r].lookups <= 1 /\ stats[r].genCalls <= 1 /\ stats[r].writeCalls <= 1
            /\ stats[r].writes = 0
            /\ stats[r].errorEntries = 0
            /\ stats[r].captures = 0

\* the part of C21 the service does keep: aborted, not retried, nothing written
C21_CanceledRequestIsAborted ==
    \A r \in Requests :
        Canceled(r) =>
            /\ call[r].result = <<>>
            /\ stats[r].lookups <= 1 /\ stats[r].genCalls <= 1 /\ stats[r].writeCalls <= 1
            /\ stats[r].writes = 0

(***************************************************************************)
(* the backlink validator and extractor                                    *)
(***************************************************************************)
\* two characters that differ at most in case
SameLetter(c, d) == c = d \/ {c, d} \in {{"a", "A"}, {"b", "B"}, {"c", "C"}, {"w", "W"}}

\* sub occurs in s at position i, compared case-insensitively
OccursFoldAt(s, i, sub) ==
    /\ i + Len(sub) - 1 <= Len(s)
    /\ \A j \in 1..Len(sub) : SameLetter(s[i + j - 1], sub[j])

OccursFold(s, sub) == \E i \in 1..(Len(s) + 1) : OccursFoldAt(s, i, sub)

\* the reference /wiki/{slug}
Reference(slug) == <<"/", "w", "i", "k", "i", "/">> \o slug

Validated == backlinkOp.op = "validate"

\* the slug holds a path separator, a space or a double quote
HasBadCharacter(slug) == \E i \in 1..Len(slug) : slug[i] \in {"/", " ", "\""}

\* C11 (as stated): the backlink validator rejects every slug list that
\* contains a slug containing /, a space or a double quote, whatever the
\* markup contains.
C11_RejectsBadCharacters ==
    (/\ Validated
     /\ \E i \in 1..Len(backlinkOp.backlinks) : HasBadCharacter(backlinkOp.backlinks[i]))
        => backlinkOp.err # Nil

\* C11 (amended): the backlink validator rejects every slug list that contains
\* a slug which, once its leading and trailing white space is trimmed, contains
\* /, a space or a double quote, whatever the markup contains.
C11_RejectsBadCharactersAfterTrim ==
    (/\ Validated
     /\ \E i \in 1..Len(backlinkOp.backlinks) :
            HasBadCharacter(TrimSpace(backlinkOp.backlinks[i])))
        => backlinkOp.err # Nil

\* a slug with a path separator is rejected although /wiki/a/b is a link of
\* the markup
C11_Witness ==
    /\ Validated
    /\ backlinkOp.backlinks = << <<"a", "/", "b">> >>
    /\ OccursFold(backlinkOp.html, Reference(<<"a", "/", "b">>))
    /\ backlinkOp.err # Nil

\* rules (a) to (c) of the validator on a slug: not blank, no path separator,
\* none of the disallowed characters
SyntaxOK(slug) ==
    /\ \E i \in 1..Len(slug) : slug[i] \notin {" ", "\t", "\n", "\r"}
    /\ \A i \in 1..Len(slug) : slug[i] \notin {"/", " ", "\"", "#", "?", "<", ">", "\\"}

\* the validator decides by the presence of the references of the slugs
\* given by form(slug)
PresenceDecides(form(_)) ==
    LET b == backlinkOp.backlinks
        present(i) == OccursFold(backlinkOp.html, Reference(form(b[i])))
    IN Validated =>
        /\ (b # <<>> /\ \E i \in 1..Len(b) : ~present(i)) => backlinkOp.err # Nil
        /\ (\A i \in 1..Len(b) : SyntaxOK(form(b[i])) /\ present(i)) => backlinkOp.err = Nil
        /\ b = <<>> => backlinkOp.err = Nil

AsGiven(slug) == slug

\* C12 (as stated): the backlink validator rejects a non-empty slug list when,
\* for some slug in it, the reference /wiki/{slug} does not occur in the
\* markup, accepts a syntactically valid list when every such reference occurs
\* in the markup compared case-insensitively, and accepts the empty list.
C12_PresenceDecides == PresenceDecides(AsGiven)

\* C12 (amended): the same with the reference built from the slug with its
\* leading and trailing white space trimmed.
C12_PresenceOfTrimmedDecides == PresenceDecides(TrimSpace)

\* the slug A is accepted for a markup whose link is /wiki/a
C12_Witness ==
    /\ Validated
    /\ backlinkOp.backlinks = << <<"A">> >>
    /\ ~Contains(backlinkOp.html, Reference(<<"A">>))
    /\ backlinkOp.err = Nil

\* the markup holds a link whose target is /wiki/{slug}
LinksTo(html, slug) ==
    OccursFold(html, <<"h", "r", "e", "f", "=", "\"">> \o Reference(slug) \o <<"\"">>)

\* C13: whenever the backlink validator accepts (markup, slugs), the markup
\* contains, for every slug of the list, an internal link whose target is
\* /wiki/{slug}, compared case-insensitively.
C13_AcceptedSlugsAreLinks ==
    (Validated /\ backlinkOp.err = Nil)
        => \A i \in 1..Len(backlinkOp.backlinks) :
               LinksTo(backlinkOp.html, backlinkOp.backlinks[i])

\* the position of the first double quote of s at or after j, or Len(s) + 1
RECURSIVE QuoteFrom(_, _)
QuoteFrom(s, j) ==
    IF j > Len(s) \/ s[j] = "\"" THEN j ELSE QuoteFrom(s, j + 1)

\* the targets, after /wiki/, of the links href="/wiki/..." of s from i on
RECURSIVE TargetsFrom(_, _)
TargetsFrom(s, i) ==
    IF i > Len(s) THEN <<>>
    ELSE LET opening == <<"h", "r", "e", "f", "=", "\"", "/", "w", "i", "k", "i", "/">>
             j == i + Len(opening)
             k == QuoteFrom(s, j)
         IN IF i + Len(opening) - 1 <= Len(s) /\ SubSeq(s, i, j - 1) = opening /\ k <= Len(s)
            THEN <<SubSeq(s, j, k - 1)>> \o TargetsFrom(s, k + 1)
            ELSE TargetsFrom(s, i + 1)

\* q without the elements that occur earlier in it
FirstOccurrences(q) ==
    LET keep == {i \in 1..Len(q) : \A j \in 1..(i - 1) : q[j] # q[i]}
        nth(n) == CHOOSE i \in keep : Cardinality({j \in keep : j < i}) = n - 1
    IN [n \in 1..Cardinality(keep) |-> q[nth(n)]]

\* q without the elements outside S
Only(q, S) == SelectSeq(q, LAMBDA x : x \in S)

Extracted == backlinkOp.op = "extract"

\* C14 (as stated): the backlink extractor returns the slugs of the internal
\* /wiki/ links of the markup taken verbatim from the link target, with
\* duplicates removed and first-occurrence order kept; markup with no such
\* link yields the empty list.
C14_ExtractsTargetsVerbatim ==
    Extracted =>
        backlinkOp.extracted = FirstOccurrences(TargetsFrom(backlinkOp.html, 1))

\* C14 (amended): the backlink extractor returns, for the links whose target
\* after /wiki/ is not empty and holds neither # nor ?, the target with its
\* leading and trailing white space trimmed (no case-folding), blank results
\* dropped, duplicates removed and first-occurrence order kept; markup with no
\* such link yields the empty list.
C14_ExtractsTrimmedTargets ==
    Extracted =>
        LET targets == TargetsFrom(backlinkOp.html, 1)
            matched == {t \in {targets[i] : i \in 1..Len(targets)} :
                            t # <<>> /\ \A i \in 1..Len(t) : t[i] \notin {"#", "?"}}
            plain == Only(targets, matched)
            trimmed == [i \in 1..Len(plain) |-> TrimSpace(plain[i])]
        IN backlinkOp.extracted = FirstOccurrences(Only(trimmed, {t \in {trimmed[i] : i \in 1..Len(trimmed)} : t # <<>>}))

\* links to a, b, a yield a, b
C14_Witness ==
    /\ Extracted
    /\ backlinkOp.html = Div(Anchors(<< <<"a">>, <<"b">>, <<"a">> >>))
    /\ backlinkOp.extracted = << <<"a">>, <<"b">> >>

(***************************************************************************)
(* the sanitizer and code fences                                           *)
(***************************************************************************)
\* C15 (as stated): for every content string, sanitizing the content wrapped
\* in a matching opening and closing fence line yields the same output, or
\* the same failure, as sanitizing the content unwrapped.
C15_FenceIsTransparent ==
    cleanOp.called => cleanOp.wrapped = cleanOp.bare

\* the text, trimmed, is itself a fenced block: it opens with a fence line and
\* ends with a fence after that line
IsFencedBlock(content) ==
    LET t == TrimSpace(content)
    IN /\ Len(t) >= 3
       /\ \A i \in 1..3 : t[i] = BackQuote
       /\ \E n \in 4..Len(t) :
            /\ t[n] = "\n"
            /\ \A m \in 4..(n - 1) : t[m] # "\n"
            /\ Len(t) - n >= 3
            /\ \A i \in (Len(t) - 2)..Len(t) : t[i] = BackQuote

\* C15 (amended): for every content string that is not itself a fenced block,
\* sanitizing the content wrapped in a matching opening and closing fence line
\* yields the same output, or the same failure, as sanitizing it unwrapped.
C15_FenceIsTransparentForBareContent ==
    (cleanOp.called /\ ~IsFencedBlock(cleanOp.content))
        => cleanOp.wrapped = cleanOp.bare

\* a paragraph, fenced with a language tag, sanitizes to the same fragment
C15_Witness ==
    /\ cleanOp.called
    /\ cleanOp.content = <<"<p>", "x", "</p>">>
    /\ cleanOp.fenced = CodeFence \o <<"h", "t", "m", "l", "\n", "<p>", "x", "</p>", "\n">> \o CodeFence
    /\ cleanOp.bare.err = Nil
    /\ cleanOp.bare.html = <<"<div>", "<p>", "x", "</p>", "</div>">>
    /\ cleanOp.wrapped = cleanOp.bare

(***************************************************************************)
(* the rate limiter                                                        *)
(***************************************************************************)
\* C16: with capacity 3 and refill rate 3/s, for one client key starting with
\* no record, the first 3 Allow calls at t=0 are admitted, a 4th at t=0 is
\* denied, and an Allow at t=1s is admitted.
C16_BudgetThenRefill ==
    \A i \in 1..Len(history) :
        (\A j \in 1..(i - 1) : history[j].now = 0)
            => /\ history[i].now = 0 => (history[i].ok <=> i <= 3)
               /\ history[i].now = TicksPerSecond => history[i].ok

\* three calls admitted and a fourth denied at t=0, a fifth admitted at t=1s
C16_Witness ==
    /\ Len(history) = 5
    /\ \A i \in 1..4 : history[i].now = 0 /\ (history[i].ok <=> i <= 3)
    /\ history[5].now = TicksPerSecond
    /\ history[5].ok

\* the smaller of two numbers
Least(a, b) == IF a < b THEN a ELSE b

\* the refill step of the call of the scenario, on a record without tokens,
\* gives perSecond tokens for each second since the last refill, capacity at
\* most (tokens are counted in units of 1/TicksPerSecond, time in ticks)
DrainedRefillStep(perSecond) ==
    LET key == allow[1].key
        elapsed == allow[1].now - clients[key].last
    IN (/\ allow[1].pc = "refill"
        /\ allow'[1].pc = "check"
        /\ clients[key].present
        /\ clients[key].tokens = 0
        /\ elapsed > 0)
           => clients'[key].tokens = Least(limiter.maxTokens, elapsed * perSecond)

\* C17 (as stated): in the capacity 3, refill rate 3/s scenario, a drained
\* bucket regains one token per elapsed second, capped at capacity.
C17_RegainsOneTokenPerSecond == [][DrainedRefillStep(1)]_vars

\* C17 (amended): in the capacity 3, refill rate 3/s scenario, a drained
\* bucket regains three tokens per elapsed second (elapsed seconds times the
\* refill rate), capped at capacity.
C17_RegainsRateTokensPerSecond == [][DrainedRefillStep(limiter.refillRate)]_vars

\* the bucket drained by three calls at t=0 holds one token and a half after
\* the refill of a call half a second later
C17_Witness ==
    /\ Len(history) = 3
    /\ \A i \in 1..3 : history[i].now = 0 /\ history[i].ok
    /\ allow[1].pc = "check"
    /\ allow[1].now = 1
    /\ clients[ClientKey].last = 1
    /\ 2 * clients[ClientKey].tokens = 3 * OneToken

\* every record holds between no token and the capacity
TokensInRange ==
    \A k \in Keys :
        clients[k].present => (0 <= clients[k].tokens /\ clients[k].tokens <= limiter.maxTokens)

\* one step of an Allow call: the refill adds the ticks since the last refill
\* times the rate, capped at the capacity (a new record starts at the capacity;
\* a call whose clock reading is not after the last refill adds nothing); the
\* call goes on to take a token exactly when a whole token is there and is
\* denied otherwise, leaving the tokens alone; taking subtracts one token
TokenBucketStep(g) ==
    LET key == allow[g].key
        now == allow[g].now
        found == clients[key].present
        tokens == IF found THEN clients[key].tokens ELSE limiter.maxTokens
        elapsed == IF found /\ now > clients[key].last THEN now - clients[key].last ELSE 0
    IN /\ (allow[g].pc = "refill" /\ allow'[g].pc # "refill")
            => /\ allow'[g].pc = "check"
               /\ clients'[key].present
               /\ clients'[key].tokens =
                      Least(limiter.maxTokens, tokens + elapsed * limiter.refillRate)
       /\ (allow[g].pc = "check" /\ allow'[g].pc # "check")
            => IF clients[key].tokens >= OneToken
               THEN allow'[g].pc = "take" /\ clients'[key].tokens = clients[key].tokens
               ELSE /\ allow'[g].pc = "done"
                    /\ ~allow'[g].ok
                    /\ clients'[key].tokens = clients[key].tokens
       /\ (allow[g].pc = "take" /\ allow'[g].pc # "take")
            => /\ allow'[g].pc = "done"
               /\ allow'[g].ok
               /\ clients'[key].tokens = clients[key].tokens - OneToken

\* C18: each Allow(key) first adds elapsed_seconds x rate tokens since the
\* client's last refill, capped at capacity, then admits and subtracts exactly
\* 1 token if tokens >= 1 and otherwise denies; in every reachable state every
\* client record satisfies 0 <= tokens <= capacity.
C18_TokenBucketStepAndBound ==
    /\ []TokensInRange
    /\ [][\A g \in Callers : TokenBucketStep(g)]_vars

\* a call is denied on a bucket that holds a part of a token
C18_Witness ==
    \E g \in Callers :
        /\ allow[g].pc = "done"
        /\ ~allow[g].ok
        /\ clients[allow[g].key].present
        /\ clients[allow[g].key].tokens > 0
        /\ clients[allow[g].key].tokens < OneToken

\* the sweep removes the records unseen for longer than the TTL, and no other
PruneStep ==
    (sweep.pc = "prune" /\ sweep'.pc = "idle")
        => \A k \in Keys :
               IF clients[k].present /\ sweep.now - clients[k].lastSeen > limiter.ttl
               THEN ~clients'[k].present
               ELSE clients'[k] = clients[k]

\* a call that finds no record starts one with a full bucket
FreshStep ==
    LET key == allow[1].key
    IN (allow[1].pc = "refill" /\ allow'[1].pc = "check" /\ ~clients[key].present)
           => clients'[key].present /\ clients'[key].tokens = limiter.maxTokens

\* the record of k was last seen at s, and a sweep is still to come more than
\* the TTL after s
AwaitsSweep(k, s) ==
    /\ clients[k].present
    /\ clients[k].lastSeen = s
    /\ sweep.pc = "idle"
    /\ sweep.next <= MaxClock
    /\ sweep.next - s > limiter.ttl

\* the record of k, last seen at s, is gone, or has been seen since
EvictedOrSeen(k, s) == ~clients[k].present \/ clients[k].lastSeen # s

\* C19: a client record that receives no further requests is evicted by the
\* background sweep after the configured idle TTL, and the next Allow from
\* that key creates a fresh record that starts with a full bucket.
C19_IdleRecordIsEvicted ==
    /\ [][PruneStep /\ FreshStep]_vars
    /\ \A k \in Keys : \A s \in 0..MaxClock : AwaitsSweep(k, s) ~> EvictedOrSeen(k, s)

\* the sweep holds the lock and is about to evict the record of a client, idle
\* for longer than the TTL with an empty bucket, while the next call of that
\* client waits for the lock
C19_Witness ==
    /\ sweep.pc = "prune"
    /\ allow[1].pc = "lock"
    /\ clients[allow[1].key].present
    /\ clients[allow[1].key].tokens = 0
    /\ sweep.now - clients[allow[1].key].lastSeen > limiter.ttl

\* the goroutines inside the section the lock guards
InSection ==
    {g \in Callers : allow[g].pc \in {"refill", "check", "take"}}
    \cup (IF sweep.pc = "prune" THEN {Sweeper} ELSE {})

\* the whole tokens the client had when the burst began: the capacity less the
\* calls admitted before
TokensAtStart == (limiter.maxTokens \div OneToken) - Len(history)

Admitted == {g \in Callers : allow[g].pc = "done" /\ allow[g].ok}

\* C20: the admission check and the sweep run under one lock, so they are
\* atomic with respect to each other: of k concurrent Allow calls on one key
\* at one instant against a bucket of n whole tokens exactly min(k, n) are
\* admitted, and a sweep never interleaves with a partially applied Allow.
C20_AdmissionIsAtomic ==
    /\ Cardinality(InSection) <= 1
    /\ mu = 0 <=> InSection = {}
    /\ (\A g \in Callers : allow[g].pc = "done")
          => /\ Cardinality(Admitted) = Least(NumCallers, TokensAtStart)
             /\ clients[ClientKey].tokens = (TokensAtStart - Cardinality(Admitted)) * OneToken

\* every call of the burst has returned, one was admitted and one denied, and
\* the sweep has evicted the stale record of the unknown client
C20_Witness ==
    /\ \A g \in Callers : allow[g].pc = "done"
    /\ \E g \in Callers : allow[g].ok
    /\ \E g \in Callers : ~allow[g].ok
    /\ ~clients["unknown"].present
    /\ sweep.pc = "idle"

(***************************************************************************)
(* the repository                                                          *)
(***************************************************************************)
StoredOnce(table, slug, html) ==
    /\ Cardinality(RowsWithSlug(table, slug)) = 1
    /\ \A i \in RowsWithSlug(table, slug) : table[i].HTML = html

\* C22: Create on a slug that already has a stored page returns an error and
\* leaves the table as it was; Create on a new slug (the database answering)
\* stores exactly one page, which GetBySlug returns, and keeps every other
\* row; no slug ever has two rows.
C22_CreateNeverOverwrites ==
    /\ \A i, j \in 1..Len(rows) : rows[i].Slug = rows[j].Slug => i = j
    /\ createOp.called =>
          LET slug == TrimSpace(createOp.page.Slug)
              fetched == GetBySlug(rows, slug, FALSE)
          IN /\ RowsWithSlug(createOp.before, slug) # {} =>
                    createOp.err # Nil /\ rows = createOp.before
             /\ (RowsWithSlug(createOp.before, slug) = {} /\ slug # <<>> /\ ~createOp.dbFails) =>
                    /\ createOp.err = Nil
                    /\ StoredOnce(rows, slug, TrimSpace(createOp.page.HTML))
                    /\ fetched.err = Nil /\ fetched.page.found
                    /\ fetched.page.Slug = slug
                    /\ fetched.page.HTML = TrimSpace(createOp.page.HTML)
                    /\ SubSeq(rows, 1, Len(createOp.before)) = createOp.before
                    /\ Len(rows) = Len(createOp.before) + 1

\* a Create on a stored slug with another markup has been refused, and a
\* Create on a new slug has stored its page next to an older one
C22_Witness ==
    /\ createOp.called
    /\ RowsWithSlug(createOp.before, TrimSpace(createOp.page.Slug)) # {}
    /\ createOp.page.HTML = <<"x">>
    /\ \E i \in 1..Len(rows) : rows[i].Slug = TrimSpace(createOp.page.Slug) /\ rows[i].HTML = <<"y">>
    /\ Len(rows) = 2

(***************************************************************************)
(* the client key                                                          *)
(***************************************************************************)
Blank(s) == \A i \in 1..Len(s) : s[i] \in {" ", "\t", "\n", "\r"}

\* t is s without the blanks around it
Stripped(s, t) ==
    /\ ~Blank(t) => ~IsSpace(t[1]) /\ ~IsSpace(t[Len(t)])
    /\ \E pre, post \in 0..Len(s) :
          /\ pre + Len(t) + post = Len(s)
          /\ \A i \in 1..pre : IsSpace(s[i])
          /\ \A i \in 1..post : IsSpace(s[Len(s) + 1 - i])
          /\ \A i \in 1..Len(t) : s[pre + i] = t[i]
          /\ Blank(t) => Len(t) = 0

\* the text of the header before its first comma
FirstEntry(header) ==
    LET commas == {i \in 1..Len(header) : header[i] = ","}
    IN IF commas = {} THEN header
       ELSE SubSeq(header, 1, (CHOOSE i \in commas : \A j \in commas : i <= j) - 1)

\* key is the host of the connection address: what stands before the port,
\* without its brackets, or the whole address when it has no such form
HostOfConnection(addr, key) ==
    \/ \E n \in 1..Len(addr) :
          /\ addr[n] = ":"
          /\ \A j \in (n + 1)..Len(addr) : addr[j] # ":"
          /\ \/ key = SubSeq(addr, 1, n - 1) /\ ~ContainsAny(key, {":", "[", "]"})
             \/ /\ SubSeq(addr, 1, n - 1) = <<"[">> \o key \o <<"]">>
                /\ ~ContainsAny(key, {"[", "]"})
    \/ /\ Stripped(addr, key)
       /\ \/ ~ContainsAny(addr, {":"})
          \/ \E n \in 1..Len(addr) :
                /\ addr[n] = ":"
                /\ \A j \in (n + 1)..Len(addr) : addr[j] # ":"
                /\ ContainsAny(SubSeq(addr, 1, n - 1), {":", "[", "]"})
                /\ ~(addr[1] = "[" /\ addr[n - 1] = "]")

\* C23: the key is the first address of X-Forwarded-For when that is not
\* blank; else the X-Real-IP header when that is not blank; else the host of
\* the connection address.
C23_KeyPreference ==
    (keyOp.called /\ keyOp.req.present) =>
        LET first == FirstEntry(keyOp.req.forwardedFor)
        IN /\ ~Blank(first) => Stripped(first, keyOp.key)
           /\ (Blank(first) /\ ~Blank(keyOp.req.realIP)) => Stripped(keyOp.req.realIP, keyOp.key)
           /\ (Blank(first) /\ Blank(keyOp.req.realIP)) =>
                  HostOfConnection(keyOp.req.RemoteAddr, keyOp.key)

\* a request with both headers set has been keyed by the first forwarded
\* address
C23_Witness ==
    /\ keyOp.called
    /\ keyOp.req.forwardedFor = <<" ", "1", " ", ",", " ", "2">>
    /\ keyOp.req.realIP = <<"3">>
    /\ keyOp.key = <<"1">>

\* a request without headers has been keyed by the host of its connection
C23_WitnessConnection ==
    /\ keyOp.called
    /\ keyOp.req.forwardedFor = <<>> /\ keyOp.req.realIP = <<" ">>
    /\ keyOp.req.RemoteAddr = <<"4", ":", "8">>
    /\ keyOp.key = <<"4">>

(***************************************************************************)
(* the sanitizer's tree rewrite                                            *)
(***************************************************************************)
\* a head, html, body, comment or doctype node in the tree of node
RECURSIVE HasDroppedKind(_)
HasDroppedKind(node) ==
    \/ node.Type \in {"comment", "doctype", "document"}
    \/ node.Type = "element" /\ node.Data \in {"head", "html", "body"}
    \/ \E i \in 1..Len(node.kids) : HasDroppedKind(node.kids[i])

\* the elements below node, and the texts inside them, in document order,
\* each with its depth, name and attributes
RECURSIVE Outline(_, _)
Outline(node, depth) ==
    LET RECURSIVE From(_)
        From(i) ==
            IF i > Len(node.kids) THEN <<>>
            ELSE LET kid == node.kids[i]
                 IN (IF kid.Type = "text" /\ depth = 0 THEN <<>>
                     ELSE <<[depth |-> depth, type |-> kid.Type, name |-> kid.Data, attr |-> kid.Attr]>>
                          \o Outline(kid, depth + 1))
                    \o From(i + 1)
    IN From(1)

\* the outline the rewrite is to produce from the parsed tree: nothing for a
\* head subtree, a comment or a doctype, the children alone for html and
\* body, div for header, every other element and the texts inside as they are
RECURSIVE ExpectedOutline(_, _)
ExpectedOutline(node, depth) ==
    LET RECURSIVE From(_)
        From(i) ==
            IF i > Len(node.kids) THEN <<>>
            ELSE LET kid == node.kids[i]
                 IN (IF kid.Type \in {"comment", "doctype"} THEN <<>>
                     ELSE IF kid.Type = "text"
                     THEN IF depth = 0 THEN <<>>
                          ELSE <<[depth |-> depth, type |-> "text", name |-> kid.Data, attr |-> <<>>]>>
                     ELSE IF kid.Data = "head" THEN <<>>
                     ELSE IF kid.Data \in {"html", "body"} THEN ExpectedOutline(kid, depth)
                     ELSE <<[depth |-> depth, type |-> "element",
                             name |-> IF kid.Data = "header" THEN "div" ELSE kid.Data,
                             attr |-> kid.Attr]>>
                          \o ExpectedOutline(kid, depth + 1))
                    \o From(i + 1)
    IN From(1)

Rewritten == ElementNode("div", <<>>, treeOp.kids)

\* C24: the rewritten fragment holds no head, html, body, comment or doctype
\* node at any depth; every header is emitted as a div with its attributes and
\* children, and every other element with its name, attributes and children in
\* their order.
C24_TreeRewrite ==
    treeOp.called =>
        /\ \A i \in 1..Len(treeOp.kids) : ~HasDroppedKind(treeOp.kids[i])
        /\ Outline(Rewritten, 0) = ExpectedOutline(treeOp.doc, 0)

\* a document with a doctype, a title in its head, and a header with a class
\* and a comment in its body has been rewritten to the div of the header
C24_Witness ==
    /\ treeOp.called
    /\ treeOp.doc.kids[1] = DoctypeNode
    /\ \E i \in 1..Len(treeOp.doc.kids) :
          /\ treeOp.doc.kids[i].Type = "element"
          /\ treeOp.doc.kids[i].Data = "html"
          /\ treeOp.doc.kids[i].kids[1] =
                 ElementNode("head", <<>>, <<ElementNode("title", <<>>, <<TextNode("x")>>)>>)
          /\ \E j \in 1..Len(treeOp.doc.kids[i].kids) :
                treeOp.doc.kids[i].kids[j] =
                    ElementNode("body", <<>>,
                        <<ElementNode("header", Hero, <<TextNode("x"), CommentNode>>)>>)
    /\ treeOp.kids = <<ElementNode("div", Hero, <<TextNode("x")>>)>>

\* C25: the fragment is rendered under one new div, except that a root whose
\* only child is a div is replaced by that child, one level only; a root
\* without children is an error.
C25_RootUnwrapping ==
    treeOp.called =>
        LET kids == treeOp.kids
            onlyDiv == Len(kids) = 1 /\ kids[1].Type = "element" /\ kids[1].Data = "div"
        IN /\ kids = <<>> => treeOp.clean.err # Nil /\ treeOp.clean.html = <<>>
           /\ onlyDiv =>
                 /\ treeOp.clean.err = Nil
                 /\ treeOp.clean.root = kids[1]
           /\ (kids # <<>> /\ ~onlyDiv) =>
                 /\ treeOp.clean.err = Nil
                 /\ treeOp.clean.root = Rewritten
           /\ treeOp.clean.err = Nil =>
                 /\ treeOp.clean.html = Render(treeOp.clean.root)
                 /\ Head(treeOp.clean.html) =
                        [tag |-> "start", name |-> "div", attr |-> treeOp.clean.root.Attr]

\* a body holding one div that holds one div has been unwrapped by one level
C25_Witness ==
    /\ treeOp.called
    /\ treeOp.kids = <<ElementNode("div", <<>>, <<ElementNode("div", Hero, <<TextNode("x")>>)>>)>>
    /\ treeOp.clean.root = ElementNode("div", <<>>, <<ElementNode("div", Hero, <<TextNode("x")>>)>>)
    /\ Len(treeOp.clean.html) = 5

\* a body holding one paragraph keeps the new root
C25_WitnessKept ==
    /\ treeOp.called
    /\ treeOp.kids = <<ElementNode("p", <<>>, <<TextNode("x")>>)>>
    /\ treeOp.clean.root = ElementNode("div", <<>>, treeOp.kids)

(***************************************************************************)
(* the rate-limit gate                                                     *)
(***************************************************************************)
Untouched(g) == pc[g] = "idle" /\ call[g] = NoCall /\ stats[g] = NoStats

\* a denied request is answered 429 with Retry-After: 1 and has reached
\* nothing behind the middleware
DeniedIsAnswered ==
    \A g \in Callers :
        allow[g].pc = "done" /\ ~allow[g].ok /\ gate'[g] # gate[g] =>
            /\ gate'[g].pc = "responded"
            /\ gate'[g].status = 429 /\ gate'[g].retryAfter = "1"
            /\ gate'[g].handled = 0
            /\ Untouched(g) /\ pc'[g] = "idle" /\ stats'[g] = NoStats

\* an admitted request reaches the handler, once
AdmittedIsHandled ==
    \A g \in Callers :
        allow[g].pc = "done" /\ allow[g].ok /\ gate'[g] # gate[g] =>
            gate'[g].pc = "handler" /\ gate'[g].handled = 1

\* GetPage, the generator and the store work only for a request in its handler
HandlerOnly ==
    \A g \in Callers :
        (pc'[g] # pc[g] \/ stats'[g] # stats[g] \/ call'[g] # call[g]) =>
            gate[g].pc = "handler" /\ gate[g].handled = 1

\* C26: a request denied by Allow is answered with status 429 and
\* Retry-After: 1 and its handler is never invoked (no GetPage call, no
\* generator call, no store access on its behalf); an admitted request
\* reaches the handler exactly once.
C26_GateBeforeHandler ==
    /\ [](\A g \in Callers :
            /\ gate[g].handled <= 1
            /\ gate[g].status = 429 => gate[g].retryAfter = "1" /\ gate[g].handled = 0 /\ Untouched(g)
            /\ ~Untouched(g) => gate[g].pc = "handler")
    /\ [][DeniedIsAnswered /\ AdmittedIsHandled /\ HandlerOnly]_vars

\* one request has been denied and answered 429 while another, admitted, has
\* had its page generated and stored
C26_Witness ==
    \E g, h \in Callers :
        /\ gate[g].status = 429 /\ gate[g].retryAfter = "1"
        /\ gate[h].pc = "handler" /\ pc[h] = "done" /\ stats[h].writes = 1

(***************************************************************************)
(* the rate bound                                                          *)
(***************************************************************************)
\* the calls admitted for key k whose clock reading lies in [a, b]
AdmittedWithin(k, a, b) ==
    {i \in 1..Len(history) :
        history[i].ok /\ history[i].key = k /\ a <= history[i].now /\ history[i].now <= b}

\* at most capacity + rate * d calls of every key are admitted in every
\* interval of length d (tokens in units of 1/TicksPerSecond, time in ticks)
RateBound ==
    \A k \in Keys : \A a \in 0..MaxClock : \A b \in a..MaxClock :
        Cardinality(AdmittedWithin(k, a, b)) * OneToken
            <= limiter.maxTokens + limiter.refillRate * (b - a)

\* C27: for every client key and every interval of d seconds, the calls
\* admitted for the key within the interval are at most capacity + rate * d,
\* whatever calls and sweeps came before, under every setting.
C27_RateBound == RateBound

\* the bound under the settings that refill a drained bucket within the TTL
RateBoundWhenRefilledWithinTTL ==
    limiter.maxTokens <= limiter.refillRate * limiter.ttl => RateBound

(***************************************************************************)
(* isolation of the keys                                                   *)
(***************************************************************************)
\* the key of the record caller g works on
OwnKey(g) == IF g % 2 = 1 THEN "1.2.3.4" ELSE "unknown"

\* a step of an Allow call leaves the record of every other key as it is
OtherKeysUntouched ==
    \A g \in Callers :
        allow'[g] # allow[g] =>
            \A k \in Keys \ {OwnKey(g)} : clients'[k] = clients[k]

\* what a step of an Allow call for key k makes of the record of k, and the
\* outcome of the call, are given by that record, the clock reading of the
\* call and the settings alone
OwnKeyStepIsLocal ==
    \A g \in Callers :
        LET k == OwnKey(g)
            now == allow[g].now
            had == IF clients[k].present THEN clients[k]
                   ELSE [present |-> TRUE, tokens |-> limiter.maxTokens, last |-> now, lastSeen |-> now]
            elapsed == now - had.last
            refilled == IF elapsed > 0
                        THEN [had EXCEPT !.tokens = Least(limiter.maxTokens,
                                                          @ + elapsed * limiter.refillRate),
                                         !.last = now]
                        ELSE had
        IN /\ (allow[g].pc = "refill" /\ allow'[g].pc # "refill") => clients'[k] = refilled
           /\ (allow[g].pc = "check" /\ allow'[g].pc # "check") =>
                  IF clients[k].tokens >= OneToken
                  THEN clients'[k] = clients[k]
                  ELSE ~allow'[g].ok /\ clients'[k] = [clients[k] EXCEPT !.lastSeen = now]
           /\ (allow[g].pc = "take" /\ allow'[g].pc # "take") =>
                  /\ allow'[g].ok
                  /\ clients'[k] = [clients[k] EXCEPT !.tokens = @ - OneToken, !.lastSeen = now]

\* the sweep decides on each record by that record alone
SweepStepIsLocal ==
    (sweep.pc = "prune" /\ sweep'.pc # "prune") =>
        \A k \in Keys :
            clients'[k] = IF clients[k].present /\ sweep.now - clients[k].lastSeen > limiter.ttl
                          THEN NoClient ELSE clients[k]

\* C28: Allow(k1) never creates, changes or removes the record of another key
\* k2, and every step on the record of k2 (of its own Allow calls and of the
\* sweep) is a function of that record and the clock reading of the step, so
\* the outcomes for k2 are the same in two runs that agree on the steps of
\* k2's own calls and of the sweeps.
C28_KeysAreIsolated == [][OtherKeysUntouched /\ OwnKeyStepIsLocal /\ SweepStepIsLocal]_vars

\* one client is denied on its empty bucket while the other holds a full one
C28_Witness ==
    /\ allow[1].pc = "done" /\ ~allow[1].ok
    /\ clients["1.2.3.4"].present /\ clients["1.2.3.4"].tokens < OneToken
    /\ clients["unknown"].present /\ clients["unknown"].tokens = limiter.maxTokens

(***************************************************************************)
(* agreement of the extractor and the validator                            *)
(***************************************************************************)
\* C29: the slugs the extractor returns for a sanitized fragment are accepted
\* by the validator against that fragment, so a GetPage call whose generation
\* and sanitization succeeded is never rejected at the validation of its
\* backlinks.
C29_OwnLinksAreAccepted ==
    \A r \in Requests :
        (Done(r) /\ stats[r].generated /\ TrimSpace(stats[r].genHTML) # <<>>)
            => stats[r].validated

(***************************************************************************)
(* the timestamps of a record under concurrent calls                       *)
(***************************************************************************)
\* the last refill of a record that stays in the table never moves backwards
LastRefillNeverRegresses ==
    \A k \in Keys :
        (clients[k].present /\ clients'[k].present) => clients'[k].last >= clients[k].last

\* lastSeen of a record that stays in the table never moves backwards
LastSeenNeverRegresses ==
    \A k \in Keys :
        (clients[k].present /\ clients'[k].present) => clients'[k].lastSeen >= clients[k].lastSeen

\* the sweep evicts no record whose latest Allow call (the latest clock
\* reading of a call on the record, which is its last refill) is less than
\* the TTL before the clock reading of the sweep
NoEarlyEviction ==
    \A k \in Keys :
        (sweep.pc = "prune" /\ clients[k].present /\ ~clients'[k].present)
            => sweep.now - clients[k].last >= limiter.ttl

\* C30: under every interleaving of concurrent Allow calls and sweeps, the
\* lastSeen and last-refill timestamps of a client never move backwards, and
\* a sweep never evicts a record whose most recent Allow call was less than
\* the TTL before the clock reading of the sweep.
C30_TimestampsNeverRegress ==
    [][LastRefillNeverRegresses /\ LastSeenNeverRegresses /\ NoEarlyEviction]_vars

\* the part of C30 that holds: the last refill never moves backwards
C30_LastRefillIsMonotonic == [][LastRefillNeverRegresses]_vars

====
